---- MODULE Spec2Model ----
(***************************************************************************)
(* A model of the irdata client (popmonkey/irdata): the retrying           *)
(* transport with its rate-limit state, the Get / GetWithCache fetch       *)
(* engine, the TTL cache and the OAuth2 session.                            *)
(*                                                                         *)
(* Time is a whole number of seconds.  ZeroTime is Go's zero time.Time;    *)
(* every time made by time.Unix or time.Now is later than it.              *)
(***************************************************************************)
EXTENDS Integers, Sequences, FiniteSets, TLC

----------------------------------------------------------------------------
(* Bounds of the model *)

\* largest retry count handed to SetRetries (0..MaxRetries, plus the default)
MaxRetries == 1
\* how many 429 answers the server may give during one call
Max429 == 2
\* the clock ticks on its own, and calls start, only up to this time
MaxTime == 3
\* largest ttl handed to GetWithCache (0..MaxTtl)
MaxTtl == 1
\* most chunk file names in one chunk_info block
MaxChunks == 2
\* GetWithCache is called only while the data files hold fewer records than this
MaxRecords == 3

----------------------------------------------------------------------------
(* Program constants *)

\* Open: getRetries: 5
DefaultRetries == 5
\* retryingGet: backoff := (i.getRetries-retries)*5 seconds
BackoffUnit == 5
\* RateLimitHandler iota values
RateLimitError == 0
RateLimitWait == 1
\* net/http status codes the code names
StatusOK == 200
StatusTooManyRequests == 429
\* first status of the 5xx range (resp.StatusCode < 500)
ServerErrorFloor == 500

\* Go's zero time.Time (year 1), and the Unix epoch on the model's time scale
ZeroTime == 0
UnixEpoch == 1
\* the time on the clock when the client is opened
StartTime == 2

----------------------------------------------------------------------------
(* Values *)

Procs == {"c1", "c2"}

\* request URIs handed to Get; BadUri is one url.Parse rejects
Uris == {"/a", "/b"}
BadUri == "%zz"

\* payload bytes
NoData == [kind |-> "nil", val |-> ""]
Plain(d) == [kind |-> "data", val |-> d]
Link(u) == [kind |-> "link", val |-> u]
DataUrl(u) == [kind |-> "data_url", val |-> u]
ErrBody == Plain("err")
\* a JSON object with both a link and a data_url field
Both(l, d) == [kind |-> "both", val |-> "", link |-> l, data_url |-> d]
\* a JSON array
Array(elems) == [kind |-> "array", val |-> "", elems |-> elems]
\* a body that is no JSON object but holds the text chunk_info
MarkerText == Plain("chunk_info")

\* the value under a chunk_info key: absent, null, an object with
\* chunk_file_names, or something else (malformed)
NoChunkInfo == [has |-> FALSE, shape |-> "", names |-> <<>>]
NullChunkInfo == [has |-> TRUE, shape |-> "null", names |-> <<>>]
BadChunkInfo == [has |-> TRUE, shape |-> "malformed", names |-> <<>>]
ChunkList(names) == [has |-> TRUE, shape |-> "list", names |-> names]

\* the value under a _chunk_data key: absent, or a []interface{} (nil or not)
NoMerge == [set |-> FALSE, isNil |-> TRUE, elems |-> <<>>]
NilResults == [set |-> TRUE, isNil |-> TRUE, elems |-> <<>>]

\* a JSON object: its own chunk_info and _chunk_data, and those of the object
\* under its key "data" (if it has one)
NoSub == [has |-> FALSE, chunk_info |-> NoChunkInfo, chunk_data |-> NoMerge]
Sub(ci) == [has |-> TRUE, chunk_info |-> ci, chunk_data |-> NoMerge]
Object(ci, sub) ==
    [kind |-> "object", val |-> "", chunk_info |-> ci, chunk_data |-> NoMerge,
     data |-> sub]

\* the chunk files the chunk host serves: JSON arrays, and one that is no array
ChunkFiles == {"c0", "c1", "c2", "bad"}
ChunkElems(name) ==
    CASE name = "c0" -> <<"e1", "e2">>
      [] name = "c1" -> <<"e3">>
      [] OTHER -> <<>>
ChunkBody(name) == IF name = "bad" THEN Plain("x") ELSE Array(ChunkElems(name))
ChunkBodies == {ChunkBody(n) : n \in ChunkFiles}

\* the lists of at most n chunk file names
RECURSIVE NameLists(_)
NameLists(n) ==
    IF n = 0 THEN {<<>>}
    ELSE NameLists(n - 1) \cup
         {Append(l, x) : l \in {m \in NameLists(n - 1) : Len(m) = n - 1}, x \in ChunkFiles}

\* bodies the API host answers with, and bodies a followed URL answers with
ApiBodies == {Plain("x"), Plain("y"), Link("s3://l"), DataUrl("s3://d")}
FollowBodies == {Plain("x"), Link("s3://l"), Object(ChunkList(<<"c0">>), NoSub)}

\* header values: "" is an absent header, "abc" does not parse
RemainingHeaders == {"", "abc", "0", "1"}
ResetHeaders == {"", "abc", "2", "6"}
Decimal == ("0" :> 0) @@ ("1" :> 1) @@ ("2" :> 2) @@ ("6" :> 6) @@ ("9" :> 9)

Statuses == {200, 401, 404, 429, 500}

NoResp == [status |-> 0, remaining |-> "", reset |-> "", body |-> NoData]
NoErr == ""

Max(a, b) == IF a >= b THEN a ELSE b

----------------------------------------------------------------------------
(* Pure functions of the code *)

\* strconv.Atoi / strconv.ParseInt on a header value
ParseInt(s) ==
    IF s \in DOMAIN Decimal THEN [ok |-> TRUE, val |-> Decimal[s]]
                            ELSE [ok |-> FALSE, val |-> 0]

\* time.Unix(val, 0)
TimeUnix(val) == UnixEpoch + val

\* updateRateLimit: the remaining count after a response's headers
updateRemainingZeroOnBad(remaining, hdr) ==
    IF hdr = "" THEN remaining ELSE ParseInt(hdr).val
updateRemaining(remaining, hdr) ==
    IF hdr # "" /\ ParseInt(hdr).ok THEN ParseInt(hdr).val ELSE remaining

\* updateRateLimit: the reset time after a response's headers
updateReset(reset, hdr) ==
    IF hdr # "" /\ ParseInt(hdr).ok THEN TimeUnix(ParseInt(hdr).val) ELSE reset

\* retryingGet: the proactive rate limit check
rateLimitReached(remaining, reset, t) == remaining <= 0 /\ t < reset

\* retryingGet: if handler == RateLimitError (the call is refused, not made to wait)
rejectsAlways(handler) == TRUE
rejects(handler) == handler = RateLimitError

\* retryingGet: for retries > 0
mayAttempt(retries) == retries > 0

\* retryingGet: how long the proactive wait sleeps (time.Until, not clamped;
\* time.Sleep returns at once for a duration <= 0)
proactiveWait(reset, t) == reset - t

\* retryingGet: how long the wait after a 429 sleeps (clamped at 0)
waitAfter429(reset, t) == IF reset - t < 0 THEN 0 ELSE reset - t

\* retryingGet: what a response's status makes the loop do
statusActionCounts429(status) ==
    IF status < ServerErrorFloor /\ status # StatusTooManyRequests THEN "break"
    ELSE "retry"
statusActionOnly200Ends(status) ==
    IF status = StatusTooManyRequests THEN "ratelimit"
    ELSE IF status = StatusOK THEN "break"
    ELSE "retry"
statusAction(status) ==
    IF status = StatusTooManyRequests THEN "ratelimit"
    ELSE IF status < ServerErrorFloor THEN "break"
    ELSE "retry"

\* retryingGet: the backoff slept after a 5xx, retries already decremented
backoffFlat(configured, retries) == BackoffUnit
backoff(configured, retries) == (configured - retries) * BackoffUnit

\* Get: json.Unmarshal into s3LinkT / dataUrlT: the link and the data_url of a body
linkOf(body) ==
    IF body.kind = "link" THEN body.val
    ELSE IF body.kind = "both" THEN body.link ELSE ""
dataUrlOf(body) ==
    IF body.kind = "data_url" THEN body.val
    ELSE IF body.kind = "both" THEN body.data_url ELSE ""

\* Get: bytes.Contains(data, []byte("chunk_info"))
hasMarker(body) ==
    IF body.kind = "object"
    THEN body.chunk_info.has \/ (body.data.has /\ body.data.chunk_info.has)
    ELSE body = MarkerText

\* resolveChunks: the keys of raw that the range has to visit
keysOf(body) ==
    (IF body.chunk_info.has THEN {"chunk_info"} ELSE {})
    \cup (IF body.data.has THEN {"data"} ELSE {})

\* resolveChunks: chunkUrl (the chunk host's base URL is left out)
chunkUrl(chunkFileName) == chunkFileName

\* resolveChunks: results = append(results, r...)
appendChunkInFront(results, r) ==
    [set |-> TRUE, isNil |-> results.isNil /\ r = <<>>, elems |-> r \o results.elems]
appendChunk(results, r) ==
    [set |-> TRUE, isNil |-> results.isNil /\ r = <<>>, elems |-> results.elems \o r]

\* resolveChunks: raw[ChunkDataKey] = results, in the object itself ("top") or
\* in the object under "data" ("nested")
setChunkData(doc, task, results) ==
    IF task = "top" THEN [doc EXCEPT !.chunk_data = results]
    ELSE [doc EXCEPT !.data.chunk_data = results]

\* hashKey: md5 of the key (distinct keys of the model hash to distinct values)
hashKey(key) ==
    CASE key = "/a" -> "md5a"
      [] key = "/b" -> "md5b"
      [] OTHER -> "md5z"

HashedKeys == {hashKey(u) : u \in Uris \cup {BadUri}}

----------------------------------------------------------------------------
(* The cache store (bitcask), as cache.go uses it *)

NoEntry == [present |-> FALSE, data |-> NoData, expiry |-> ZeroTime, instant |-> FALSE]

\* cask.PutWithTTL: the entry expires at time.Now().Add(ttl)
caskPut(kv, k, data, ttl, t) ==
    [kv EXCEPT ![k] = [present |-> TRUE, data |-> data, expiry |-> t + ttl,
                       instant |-> (ttl <= 0)]]

\* cask.Get: the outcomes the store can give for key k at time t.  An entry is
\* expired when its expiry is before the time of the lookup, which is later
\* than the time of the write: within the second of its expiry an entry with a
\* positive ttl may or may not have expired yet, one with ttl 0 has.  "io"
\* stands for any other error of the store.
caskGet(kv, k, t) ==
    LET e == kv[k] IN
    {[err |-> "io", data |-> NoData]}
    \cup (IF ~e.present THEN {[err |-> "ErrKeyNotFound", data |-> NoData]} ELSE {})
    \cup (IF e.present /\ e.expiry <= t
          THEN {[err |-> "ErrKeyExpired", data |-> NoData]} ELSE {})
    \cup (IF e.present /\ (e.expiry > t \/ (e.expiry = t /\ ~e.instant))
          THEN {[err |-> NoErr, data |-> e.data]} ELSE {})

\* getCachedData: an expired or absent key is no data and no error
getCachedDataMissOnError(r) ==
    IF r.err # NoErr THEN [data |-> NoData, err |-> NoErr]
    ELSE [data |-> r.data, err |-> NoErr]
getCachedData(r) ==
    IF r.err \in {"ErrKeyExpired", "ErrKeyNotFound"} THEN [data |-> NoData, err |-> NoErr]
    ELSE IF r.err # NoErr THEN [data |-> NoData, err |-> "cache get error"]
    ELSE [data |-> r.data, err |-> NoErr]

\* setCachedData: [kv, err] of PutWithTTL(hashKey(key), data, ttl) at time t;
\* ok: the store took the write
cachePut(kv, key, data, ttl, t, ok) ==
    IF ok THEN [kv |-> caskPut(kv, hashKey(key), data, ttl, t), err |-> NoErr]
    ELSE [kv |-> kv, err |-> "cache put error"]

\* deleteCachedData: [kv, err]: if i.cask.Has(k) the key is deleted (ok: the
\* store did it), and a key the store does not have is left alone
deleteCachedDataFailsOnAbsent(kv, key, ok) ==
    IF kv[hashKey(key)].present /\ ok
    THEN [kv |-> [kv EXCEPT ![hashKey(key)] = NoEntry], err |-> NoErr]
    ELSE [kv |-> kv, err |-> "cache delete error"]
deleteCachedData(kv, key, ok) ==
    IF kv[hashKey(key)].present
    THEN IF ok THEN [kv |-> [kv EXCEPT ![hashKey(key)] = NoEntry], err |-> NoErr]
         ELSE [kv |-> kv, err |-> "cache delete error"]
    ELSE [kv |-> kv, err |-> NoErr]

\* the data files of the store: a data file holds RecordsPerFile records (the
\* size set with WithMaxDatafileSize), and there is always one data file
RecordsPerFile == 2
dataFiles(records) ==
    IF records = 0 THEN 1 ELSE (records + RecordsPerFile - 1) \div RecordsPerFile

\* the entries the store holds, and its stale records: those in the data files
\* that are no entry's current record (overwritten, or of a collected entry)
liveRecords(kv) == Cardinality({k \in DOMAIN kv : kv[k].present})
staleRecords(c) == c.records - liveRecords(c.kv)

\* an entry that has expired at time t, and one that may have (within the
\* second of its expiry)
hasExpired(e, t) == e.present /\ (e.expiry < t \/ (e.expiry = t /\ e.instant))
mayHaveExpired(e, t) == e.present /\ e.expiry <= t

\* cask.RunGC: the expired entries are deleted (their records stay in the data
\* files until the next merge)
caskRunGC(kv, t) == [k \in DOMAIN kv |-> IF hasExpired(kv[k], t) THEN NoEntry ELSE kv[k]]

\* cask.Merge: the errors it can give at time t: ErrKeyExpired when it comes upon
\* an entry that has expired, no error when no entry has, and any other error
\* of the store ("io")
caskMerge(kv, t) ==
    {"io"}
    \cup (IF \E k \in DOMAIN kv : mayHaveExpired(kv[k], t) THEN {"ErrKeyExpired"} ELSE {})
    \cup (IF \E k \in DOMAIN kv : hasExpired(kv[k], t) THEN {} ELSE {NoErr})

\* a merge that worked: the data files hold the entries' current records only
merged(c) == [c EXCEPT !.records = liveRecords(c.kv)]

\* cacheClose: for attempts := 1; attempts <= 3; attempts++
MergeAttempts == 3
mergeMayRun(attempts) == attempts <= MergeAttempts

\* cacheClose: what the loop does with Merge's error: break on nil, RunGC and
\* continue on ErrKeyExpired, break on any other error
afterMergeRetriesAll(err) == IF err = NoErr THEN "break" ELSE "retry"
afterMerge(err) ==
    IF err = NoErr THEN "break"
    ELSE IF err = "ErrKeyExpired" THEN "retry"
    ELSE "break"

\* cacheCloseFast: i.cask.Close() and nothing else
cacheCloseFastMerges(c) == [merged(c) EXCEPT !.closes = @ + 1]
cacheCloseFast(c) == [c EXCEPT !.closes = @ + 1]

----------------------------------------------------------------------------
(* Credentials: masking, and the encrypted files *)

\* strings.ToLower, a character at a time
RECURSIVE lowerIn(_, _, _)
lowerIn(ch, uppers, lowers) ==
    IF uppers = "" THEN ch
    ELSE IF Head(uppers) = ch THEN Head(lowers)
    ELSE lowerIn(ch, Tail(uppers), Tail(lowers))
RECURSIVE ToLower(_)
ToLower(text) ==
    IF text = "" THEN ""
    ELSE lowerIn(Head(text), "ABCDEFGHIJKLMNOPQRSTUVWXYZ", "abcdefghijklmnopqrstuvwxyz")
         \o ToLower(Tail(text))

\* base64.StdEncoding.Strict().EncodeToString(sha256 of text): sha256 is taken
\* to be free of collisions, the digest of a text is written "#" and the text;
\* a text starting with "#" stands for the 44 characters of strict base64 that
\* decode to 32 bytes
digest(text) == "#" \o text

\* isMasked: the secret decodes as strict base64 to sha256.Size bytes
isMasked(secret) == secret # "" /\ Head(secret) = "#"

\* maskSecret: the hash of the secret and the lower-cased id, no separator
maskSecretKeepsCase(secret, id) == digest(secret \o id)
maskSecret(secret, id) == digest(secret \o ToLower(id))

\* AuthWithProvideCreds / AuthAndSaveProvidedCredsToFile: the authDataT built
\* from what GetCreds gave
authDataOf(given) ==
    [Username |-> given.username,
     MaskedPassword |-> IF isMasked(given.password) THEN given.password
                        ELSE maskSecret(given.password, given.username),
     ClientID |-> given.clientID,
     ClientSecret |-> given.clientSecret]

\* authDataT
AuthDataFields == {"Username", "MaskedPassword", "ClientID", "ClientSecret"}
ZeroAuthData == [n \in AuthDataFields |-> ""]

\* getKey: the key files on disk are "k1" and "k2" (mode 0400, each holding its
\* own key) and "k644" (mode 0644); any other name is no file
getKey(keyFilename) ==
    IF keyFilename \in {"k1", "k2"} THEN [err |-> NoErr, key |-> keyFilename]
    ELSE IF keyFilename = "k644"
    THEN [err |-> "key file must have perms set to 0400", key |-> ""]
    ELSE [err |-> "unable to stat", key |-> ""]

\* gob: a struct is sent as the fields that are not zero, and decoded into the
\* fields of the receiving struct, the others staying zero
gobEncode(payload) == [n \in {m \in DOMAIN payload : payload[m] # ""} |-> payload[n]]
gobDecodeFirstField(stream, fields) ==
    [n \in fields |-> IF n \in DOMAIN stream /\ n = "Username" THEN stream[n] ELSE ""]
gobDecode(stream, fields) ==
    [n \in fields |-> IF n \in DOMAIN stream THEN stream[n] ELSE ""]

\* no credentials file on disk
NoCredsFile == [exists |-> FALSE, key |-> "", nonce |-> "", gob |-> <<>>]

\* encryptToFile: [err, file]: the gob of the payload sealed with the key under
\* a fresh nonce; ok: os.WriteFile worked
encryptToFile(keyFilename, file, payload, nonce, ok) ==
    LET k == getKey(keyFilename) IN
    IF k.err # NoErr THEN [err |-> k.err, file |-> file]
    ELSE IF ~ok THEN [err |-> "unable to write", file |-> file]
    ELSE [err |-> NoErr,
          file |-> [exists |-> TRUE, key |-> k.key, nonce |-> nonce,
                    gob |-> gobEncode(payload)]]

\* decryptFromFile: [err, payload]
decryptFromFile(keyFilename, file, fields) ==
    LET k == getKey(keyFilename)
        zero == [n \in fields |-> ""]
    IN
    IF k.err # NoErr THEN [err |-> k.err, payload |-> zero]
    ELSE IF ~file.exists THEN [err |-> "file does not exist", payload |-> zero]
    ELSE IF file.key # k.key THEN [err |-> "unable to open aesgcm", payload |-> zero]
    ELSE [err |-> NoErr, payload |-> gobDecode(file.gob, fields)]

\* writeCreds
writeCreds(keyFilename, file, authData, nonce, ok) ==
    encryptToFile(keyFilename, file, authData, nonce, ok)

\* readCreds: [authData, err]; a record without client ID or client secret is
\* returned along with the legacy format error
LegacyFormat == "credentials file is in a legacy format"
readCredsAcceptsLegacy(keyFilename, file) ==
    LET d == decryptFromFile(keyFilename, file, AuthDataFields) IN
    [authData |-> d.payload, err |-> d.err]
readCreds(keyFilename, file) ==
    LET d == decryptFromFile(keyFilename, file, AuthDataFields) IN
    IF d.err # NoErr THEN [authData |-> d.payload, err |-> d.err]
    ELSE IF d.payload.ClientID = "" \/ d.payload.ClientSecret = ""
    THEN [authData |-> d.payload, err |-> LegacyFormat]
    ELSE [authData |-> d.payload, err |-> NoErr]

\* no answer of the token endpoint
NoAnswer == [status |-> 0, decodable |-> FALSE, access |-> "", refresh |-> "", expires |-> 0]

\* nothing was POSTed; nothing was provided, written or read yet
NoPost ==
    [refresh_token |-> "", refresh |-> NoAnswer,
     password |-> "", client_id |-> "", client_secret |-> "", grant |-> NoAnswer]
NoGiven == [username |-> "", password |-> "", clientID |-> "", clientSecret |-> ""]
NoWrite == [key |-> "", authData |-> ZeroAuthData]
NoRead == [key |-> "", authData |-> ZeroAuthData, err |-> NoErr]
NoCreds == [file |-> NoCredsFile, given |-> NoGiven, wrote |-> NoWrite, read |-> NoRead]

----------------------------------------------------------------------------
(* State *)

VARIABLES
    \* the Irdata struct
    isAuthed,            \* i.isAuthed
    cask,                \* i.cask: [open, kv, records, closes]; open = FALSE is a nil cask
    getRetries,          \* i.getRetries
    rateLimitHandler,    \* i.rateLimitHandler
    rateLimitMu,         \* i.rateLimitMu: the caller that holds it, "" when free
    rateLimitRemaining,  \* i.rateLimitRemaining
    rateLimitReset,      \* i.rateLimitReset
    session,             \* AccessToken, RefreshToken, TokenExpiry, ClientID, ClientSecret
    authTokenFile,       \* i.authTokenFile: "" when no token file is configured
    \* the world
    now,                 \* the clock
    tokenFile,           \* the token file on disk
    lastGrant,           \* grant_type of the last POST the token endpoint got
    posted,              \* the password_limited form the latest auth call POSTed
    creds,               \* the credentials file, and the latest use made of it
    \* the callers (goroutines) of the client
    callers,             \* those that make calls
    ctx,                 \* the context handed to Open: "live" or "canceled"
    frame,               \* each caller's call frame: position, locals, outcome
    recent,              \* the call that has filled the cache and returned this instant
    crashed              \* the program has panicked

vars == <<isAuthed, cask, getRetries, rateLimitHandler, rateLimitRemaining,
          rateLimitReset, session, authTokenFile, now, tokenFile, lastGrant,
          posted, creds,
          rateLimitMu, callers, ctx, frame, recent, crashed>>

client == <<isAuthed, cask, getRetries, rateLimitHandler, session, authTokenFile,
            tokenFile, lastGrant, posted, creds>>
rateLimit == <<rateLimitMu, rateLimitRemaining, rateLimitReset>>

\* no call has just filled the cache
NoRecent == [uri |-> "", ttl |-> 0, data |-> NoData]

\* the rate limit headers of a response: none of the two was sent
NoHeaders == [remaining |-> "", reset |-> ""]

\* what the proactive check has read of the rate limit state: nothing yet
NoSeen == [remaining |-> 0, reset |-> ZeroTime, limited |-> FALSE, read |-> FALSE]

NoSession ==
    [AccessToken |-> "", RefreshToken |-> "", TokenExpiry |-> ZeroTime,
     ClientID |-> "", ClientSecret |-> ""]

\* the locals of cacheClose, and the store as Close found it: no Close is running
NoClose == [attempts |-> 0, err |-> NoErr, gcs |-> 0, merges |-> 0,
            records |-> 0, stale |-> 0]

\* the locals of auth's password limited grant: retries, the answer to the last
\* POST, and what the token endpoint saw: the statuses it answered the POSTs
\* with and the backoffs slept between them; no grant is running
NoGrant == [authData |-> [MaskedPassword |-> "", ClientID |-> "", ClientSecret |-> ""],
            retries |-> 0, resp |-> NoAnswer, nap |-> 0, tries |-> <<>>, naps |-> <<>>]

IdleFrame ==
    [pc |-> "idle", op |-> "none", uri |-> "", ttl |-> 0,
     stage |-> "", url |-> "", retries |-> 0, left429 |-> 0,
     sent |-> 0, nap |-> 0,
     resp |-> NoResp, hdrs |-> NoHeaders, rerr |-> NoErr, rreset |-> ZeroTime,
     wake |-> 0, seen |-> NoSeen, close |-> NoClose, grant |-> NoGrant,
     token |-> NoSession,
     doc |-> NoData, keys |-> {}, task |-> "", names |-> <<>>, results |-> NoMerge,
     after |-> NoRecent, got |-> FALSE, stored |-> FALSE, at |-> ZeroTime,
     data |-> NoData, err |-> NoErr, reset |-> ZeroTime]

\* no token file on disk
NoFile == [exists |-> FALSE, key |-> "", token |-> NoSession]

\* Open
Init ==
    /\ isAuthed = FALSE
    /\ cask = [open |-> FALSE, kv |-> [k \in HashedKeys |-> NoEntry],
               records |-> 0, closes |-> 0]
    /\ getRetries = DefaultRetries
    /\ rateLimitHandler = RateLimitError
    /\ rateLimitMu = ""
    /\ rateLimitRemaining = 0
    /\ rateLimitReset = ZeroTime
    /\ session = NoSession
    /\ authTokenFile = ""
    /\ now = StartTime
    /\ tokenFile = NoFile
    /\ lastGrant = ""
    /\ posted = NoPost
    /\ creds = NoCreds
    /\ callers = {"c1"}
    /\ ctx = "live"
    /\ frame = [c \in Procs |-> IdleFrame]
    /\ recent = NoRecent
    /\ crashed = FALSE

AllIdle == \A c \in Procs : frame[c].pc = "idle"

----------------------------------------------------------------------------
(* Configuration *)

\* SetRetries
SetRetries(n) ==
    /\ ~crashed /\ AllIdle
    /\ getRetries' = n
    /\ recent' = NoRecent
    /\ UNCHANGED <<isAuthed, cask, rateLimitHandler, session, authTokenFile,
                   tokenFile, lastGrant, posted, creds, rateLimit, now,
                   callers, ctx, frame, crashed>>

\* SetRateLimitHandler
SetRateLimitHandler(handler) ==
    /\ ~crashed /\ AllIdle
    /\ rateLimitHandler' = handler
    /\ recent' = NoRecent
    /\ UNCHANGED <<isAuthed, cask, getRetries, session, authTokenFile,
                   tokenFile, lastGrant, posted, creds, rateLimit, now,
                   callers, ctx, frame, crashed>>

\* EnableCache / cacheOpen: bitcask.Open gives the store or an error (nil cask)
EnableCache ==
    /\ ~crashed /\ AllIdle /\ ~cask.open
    /\ \E ok \in BOOLEAN : cask' = [cask EXCEPT !.open = ok, !.closes = 0]
    /\ recent' = NoRecent
    /\ UNCHANGED <<isAuthed, getRetries, rateLimitHandler, session,
                   authTokenFile, tokenFile, lastGrant, posted, creds, rateLimit, now,
                   callers, ctx, frame,
                   crashed>>

\* a second passes
Tick ==
    /\ ~crashed /\ now < MaxTime
    /\ now' = now + 1
    /\ recent' = NoRecent
    /\ UNCHANGED <<client, rateLimit, callers, ctx, frame, crashed>>

\* the caller cancels the context it handed to Open
Cancel ==
    /\ ~crashed /\ ctx = "live"
    /\ ctx' = "canceled"
    /\ recent' = NoRecent
    /\ UNCHANGED <<client, rateLimit, now, callers, frame, crashed>>

----------------------------------------------------------------------------
(* Get, GetWithCache and retryingGet, one caller's step at a time *)

\* a call returns (data, err) to its caller
Done(f, data, err, reset) ==
    [f EXCEPT !.pc = "done", !.data = data, !.err = err, !.reset = reset,
              !.stage = "", !.url = "", !.retries = 0, !.left429 = 0,
              !.sent = 0, !.nap = 0,
              !.resp = NoResp, !.rerr = NoErr, !.rreset = ZeroTime, !.wake = 0,
              !.seen = NoSeen,
              !.doc = NoData, !.keys = {}, !.task = "", !.names = <<>>,
              !.results = NoMerge]

NewFrame(op, uri, ttl) ==
    [IdleFrame EXCEPT !.pc = "start", !.op = op, !.uri = uri, !.ttl = ttl,
                      !.left429 = Max429, !.after = recent]

Put(c, f) ==
    /\ frame' = [frame EXCEPT ![c] = f]
    /\ recent' = NoRecent

\* retryingGet is entered for url
enterRetryingGet(f, stage, url) ==
    [f EXCEPT !.pc = "rg_check", !.stage = stage, !.url = url, !.sent = 0,
              !.nap = 0, !.resp = NoResp, !.rerr = NoErr, !.rreset = ZeroTime]

\* Get, up to its first retryingGet
getBegin(f, authed) ==
    IF ~authed THEN Done([f EXCEPT !.got = TRUE], NoData, "must auth first", ZeroTime)
    ELSE IF f.uri = BadUri
    THEN Done([f EXCEPT !.got = TRUE], NoData, "url parse error", ZeroTime)
    ELSE enterRetryingGet([f EXCEPT !.got = TRUE], "api", f.uri)

\* GetWithCache, after the cache was asked: g is what getCachedData returned
afterLookupAlwaysFetches(f, g, authed) ==
    IF g.err # NoErr THEN Done(f, NoData, g.err, ZeroTime) ELSE getBegin(f, authed)
afterLookup(f, g, authed) ==
    IF g.err # NoErr THEN Done(f, NoData, g.err, ZeroTime)
    ELSE IF g.data # NoData THEN Done(f, g.data, NoErr, ZeroTime)
    ELSE getBegin(f, authed)

\* GetWithCache, when the cache write failed: the data and the error
storeFailedDropsData(f) == Done(f, NoData, "cache put error", ZeroTime)
storeFailed(f) == Done(f, f.data, "cache put error", ZeroTime)

\* Get hands data to its caller, or GetWithCache goes on to write the cache
gotData(f, data) ==
    IF f.op = "Get" THEN Done(f, data, NoErr, ZeroTime)
    ELSE [f EXCEPT !.pc = "gwc_store", !.data = data]

\* Get: which URL of the first body is followed, if any: the link, else the
\* data_url
NoFollow == [stage |-> "", url |-> ""]
followDataUrlFirst(body) ==
    IF dataUrlOf(body) # "" THEN [stage |-> "data_url", url |-> dataUrlOf(body)]
    ELSE IF linkOf(body) # "" THEN [stage |-> "link", url |-> linkOf(body)]
    ELSE NoFollow
follow(body) ==
    IF linkOf(body) # "" THEN [stage |-> "link", url |-> linkOf(body)]
    ELSE IF dataUrlOf(body) # "" THEN [stage |-> "data_url", url |-> dataUrlOf(body)]
    ELSE NoFollow

\* Get: the quick check for chunk info on the final data: without the marker the
\* data is returned as it is; with it the data must be a JSON object, whose keys
\* resolveChunks then ranges over
chunkCheckAlwaysParses(f, data) ==
    IF data.kind # "object"
    THEN Done(f, NoData, "json unmarshal error", ZeroTime)
    ELSE [f EXCEPT !.pc = "rc_range", !.stage = "", !.url = "", !.resp = NoResp,
                   !.doc = data, !.keys = keysOf(data), !.task = "",
                   !.names = <<>>, !.results = NoMerge]
chunkCheck(f, data) ==
    IF ~hasMarker(data) THEN gotData(f, data)
    ELSE IF data.kind # "object"
    THEN Done(f, NoData, "json unmarshal error", ZeroTime)
    ELSE [f EXCEPT !.pc = "rc_range", !.stage = "", !.url = "", !.resp = NoResp,
                   !.doc = data, !.keys = keysOf(data), !.task = "",
                   !.names = <<>>, !.results = NoMerge]

\* resolveChunks: a chunk_info block is done: raw[ChunkDataKey] = results, and
\* the range over the keys goes on
blockDone(f, results) ==
    [f EXCEPT !.pc = "rc_range", !.stage = "", !.url = "", !.resp = NoResp,
              !.doc = setChunkData(f.doc, f.task, [results EXCEPT !.set = TRUE]),
              !.task = "", !.names = <<>>, !.results = NoMerge]

\* resolveChunks: a chunk could not be fetched or decoded: Get returns the error
\* of its own object; the error of the recursive call is dropped
blockFailed(f, err, reset) ==
    IF f.task = "top" THEN Done(f, NoData, err, reset)
    ELSE [f EXCEPT !.pc = "rc_range", !.stage = "", !.url = "", !.resp = NoResp,
                   !.rerr = NoErr, !.rreset = ZeroTime,
                   !.task = "", !.names = <<>>, !.results = NoMerge]

\* resolveChunks: the body of a chunk file is decoded and appended
chunkFetched(f) ==
    IF f.resp.body.kind # "array" THEN blockFailed(f, "json unmarshal error", ZeroTime)
    ELSE LET results == appendChunk(f.results, f.resp.body.elems) IN
         IF f.names = <<>> THEN blockDone(f, results)
         ELSE enterRetryingGet([f EXCEPT !.names = Tail(@), !.results = results],
                               "chunk", chunkUrl(Head(f.names)))

\* resolveChunks: a chunk_info key is visited: var results []interface{}, and
\* the chunk files are fetched one after the other
blockBeginSkipsEmpty(f, task, ci) ==
    IF ci.shape = "null" \/ ci.names = <<>>
    THEN [f EXCEPT !.pc = "rc_range"]
    ELSE enterRetryingGet([f EXCEPT !.task = task, !.names = Tail(ci.names),
                                    !.results = NilResults],
                          "chunk", chunkUrl(Head(ci.names)))
blockBegin(f, task, ci) ==
    IF ci.shape = "null" \/ ci.names = <<>>
    THEN blockDone([f EXCEPT !.task = task], NilResults)
    ELSE enterRetryingGet([f EXCEPT !.task = task, !.names = Tail(ci.names),
                                    !.results = NilResults],
                          "chunk", chunkUrl(Head(ci.names)))

\* Get, after a retryingGet returned with a response
getAfterResponseKeepsErrorBody(f) ==
    IF f.stage = "api"
    THEN IF follow(f.resp.body) # NoFollow
         THEN enterRetryingGet(f, follow(f.resp.body).stage, follow(f.resp.body).url)
         ELSE chunkCheck(f, f.resp.body)
    ELSE IF f.stage = "chunk" THEN chunkFetched(f)
    ELSE chunkCheck(f, f.resp.body)
getAfterResponseChecksEvery(f) ==
    IF f.resp.status # StatusOK
    THEN Done(f, NoData, "received non-200 status code", ZeroTime)
    ELSE IF f.stage = "api"
    THEN IF follow(f.resp.body) # NoFollow
         THEN enterRetryingGet(f, follow(f.resp.body).stage, follow(f.resp.body).url)
         ELSE chunkCheck(f, f.resp.body)
    ELSE IF f.stage = "chunk" THEN chunkFetched(f)
    ELSE chunkCheck(f, f.resp.body)
getAfterResponse(f) ==
    IF f.stage = "api"
    THEN IF f.resp.status # StatusOK
         THEN Done(f, NoData, "received non-200 status code", ZeroTime)
         ELSE IF follow(f.resp.body) # NoFollow
         THEN enterRetryingGet(f, follow(f.resp.body).stage, follow(f.resp.body).url)
         ELSE chunkCheck(f, f.resp.body)
    ELSE IF f.stage = "chunk" THEN chunkFetched(f)
    ELSE chunkCheck(f, f.resp.body)

\* what the network can do with a request: fail at the network level (NoResp)
\* or answer; only a 200 carries a payload
Responses(statuses, remainings, resets, bodies) ==
    UNION {{[status |-> st, remaining |-> rm, reset |-> rs, body |-> b] :
               rm \in remainings, rs \in resets,
               b \in (IF st = StatusOK THEN bodies ELSE {ErrBody})} :
           st \in statuses}

\* retryingGet: httpClient.Get gave an error: return nil, err
networkErrorRetried(f) ==
    [f EXCEPT !.pc = "rg_sleep", !.resp = NoResp, !.retries = @ - 1, !.sent = @ + 1,
              !.nap = BackoffUnit]
networkError(f) ==
    [f EXCEPT !.pc = "rg_ret", !.resp = NoResp, !.rerr = "network error",
              !.sent = @ + 1, !.nap = 0]

\* those of answers that the next request of frame f can get: the server gives
\* at most Max429 429s during one call, a followed URL holds data or a link, and
\* a chunk URL holds that chunk file
Answers(f, answers) ==
    {a \in answers :
        /\ a.status = StatusTooManyRequests => f.left429 > 0
        /\ (f.stage \in {"link", "data_url"} /\ a.status = StatusOK)
               => a.body \in FollowBodies
        /\ (f.stage = "chunk" /\ a.status = StatusOK) => a.body = ChunkBody(f.url)}

CanStart(c) ==
    /\ ~crashed /\ c \in callers /\ frame[c].pc = "idle" /\ now <= MaxTime

\* Get(uri)
Get(c, uri) ==
    /\ CanStart(c)
    /\ Put(c, getBegin(NewFrame("Get", uri, 0), isAuthed))
    /\ UNCHANGED <<client, rateLimit, now, callers, ctx, crashed>>

\* GetWithCache(uri, ttl), up to the Get it makes on a miss
GetWithCache(c, uri, ttl) ==
    /\ CanStart(c)
    /\ cask.closes = 0 /\ cask.records < MaxRecords
    /\ LET f == NewFrame("GetWithCache", uri, ttl) IN
       IF ~cask.open
       THEN Put(c, Done(f, NoData, "cache must be enabled", ZeroTime))
       ELSE \E r \in caskGet(cask.kv, hashKey(uri), now) :
                Put(c, afterLookup(f, getCachedData(r), isAuthed))
    /\ UNCHANGED <<client, rateLimit, now, callers, ctx, crashed>>

\* retryingGet: the proactive rate limit check, made holding rateLimitMu
proactiveCheck(c) ==
    /\ ~crashed /\ frame[c].pc = "rg_check"
    /\ LET f == frame[c] IN
       IF rateLimitReached(rateLimitRemaining, rateLimitReset, now)
       THEN IF rejects(rateLimitHandler)
            THEN Put(c, [f EXCEPT !.pc = "rg_ret",
                                  !.rerr = "rate limit exceeded",
                                  !.rreset = rateLimitReset])
            ELSE Put(c, [f EXCEPT !.pc = "rg_wait",
                                  !.nap = proactiveWait(rateLimitReset, now),
                                  !.wake = now + proactiveWait(rateLimitReset, now)])
       ELSE Put(c, [f EXCEPT !.pc = "rg_loop", !.retries = getRetries])
    /\ UNCHANGED <<client, rateLimit, now, callers, ctx, crashed>>

\* retryingGet: the proactive wait is over; retries := i.getRetries
proactiveWaitOver(c) ==
    /\ ~crashed /\ frame[c].pc = "rg_wait"
    /\ now' = Max(now, frame[c].wake)
    /\ Put(c, [frame[c] EXCEPT !.pc = "rg_loop", !.retries = getRetries, !.wake = 0])
    /\ UNCHANGED <<client, rateLimit, callers, ctx, crashed>>

\* retryingGet: the loop condition, i.httpClient.Get(url) and, on a response,
\* updateRateLimit(resp), which holds rateLimitMu
httpClientGet(c, answers) ==
    /\ ~crashed /\ frame[c].pc = "rg_loop"
    /\ LET f == frame[c] IN
       IF ~mayAttempt(f.retries)
       THEN Put(c, [f EXCEPT !.pc = "rg_ret"]) /\ UNCHANGED rateLimit
       ELSE \E a \in Answers(f, answers) :
              IF a = NoResp
              THEN /\ Put(c, networkError(f))
                   /\ UNCHANGED rateLimit
              ELSE /\ Put(c, [f EXCEPT !.pc = "rg_status",
                                       !.resp = [a EXCEPT !.remaining = "", !.reset = ""],
                                       !.hdrs = [remaining |-> a.remaining,
                                                 reset |-> a.reset],
                                       !.left429 = IF a.status = StatusTooManyRequests
                                                   THEN @ - 1 ELSE @,
                                       !.sent = @ + 1, !.nap = 0])
                   /\ rateLimitRemaining' = updateRemaining(rateLimitRemaining, a.remaining)
                   /\ rateLimitReset' = updateReset(rateLimitReset, a.reset)
                   /\ rateLimitMu' = rateLimitMu
    /\ UNCHANGED <<client, now, callers, ctx, crashed>>

\* retryingGet: what the loop does with the response's status
handleStatus(c) ==
    /\ ~crashed /\ frame[c].pc = "rg_status"
    /\ LET f == frame[c]
           a == statusAction(f.resp.status)
           w == waitAfter429(rateLimitReset, now)
           b == backoff(getRetries, f.retries - 1)
       IN
       IF a = "ratelimit"
       THEN IF rejects(rateLimitHandler)
            THEN Put(c, [f EXCEPT !.pc = "rg_ret", !.resp = NoResp,
                                  !.hdrs = NoHeaders,
                                  !.rerr = "rate limit exceeded",
                                  !.rreset = rateLimitReset])
            ELSE Put(c, [f EXCEPT !.pc = "rg_sleep", !.hdrs = NoHeaders,
                                  !.nap = w, !.wake = now + w])
       ELSE IF a = "break"
       THEN Put(c, [f EXCEPT !.pc = "rg_ret", !.hdrs = NoHeaders])
       ELSE Put(c, [f EXCEPT !.pc = "rg_sleep", !.hdrs = NoHeaders, !.retries = @ - 1,
                             !.nap = b, !.wake = now + b])
    /\ UNCHANGED <<client, rateLimit, now, callers, ctx, crashed>>

\* retryingGet: time.Sleep is over, the loop goes round
sleepOver(c) ==
    /\ ~crashed /\ frame[c].pc = "rg_sleep"
    /\ now' = Max(now, frame[c].wake)
    /\ Put(c, [frame[c] EXCEPT !.pc = "rg_loop", !.wake = 0, !.nap = 0])
    /\ UNCHANGED <<client, rateLimit, callers, ctx, crashed>>

\* Get: retryingGet has returned (resp, err)
getResume(c) ==
    /\ ~crashed /\ frame[c].pc = "rg_ret"
    /\ LET f == frame[c] IN
       IF f.rerr # NoErr
       THEN Put(c, IF f.stage = "chunk" THEN blockFailed(f, f.rerr, f.rreset)
                   ELSE Done(f, NoData, f.rerr, f.rreset))
            /\ UNCHANGED crashed
       ELSE IF f.resp = NoResp
       THEN \* resp.Body of a nil response: nil pointer dereference
            Put(c, [f EXCEPT !.pc = "panic"]) /\ crashed' = TRUE
       ELSE Put(c, getAfterResponse(f)) /\ UNCHANGED crashed
    /\ UNCHANGED <<client, rateLimit, now, callers, ctx>>

\* resolveChunks: the range over the keys of the object, in the order the map
\* gives them; when no key is left Get marshals the object again
rangeRaw(c) ==
    /\ ~crashed /\ frame[c].pc = "rc_range"
    /\ LET f == frame[c] IN
       IF f.keys = {}
       THEN Put(c, gotData([f EXCEPT !.doc = NoData], f.doc)) /\ UNCHANGED crashed
       ELSE \E k \in f.keys :
              LET g == [f EXCEPT !.keys = @ \ {k}]
                  ci == IF k = "chunk_info" THEN f.doc.chunk_info
                        ELSE f.doc.data.chunk_info
              IN
              IF ~ci.has THEN Put(c, g) /\ UNCHANGED crashed
              ELSE IF ci.shape = "malformed"
              THEN \* v.(map[string]interface{}) of another value: panic
                   Put(c, [g EXCEPT !.pc = "panic"]) /\ crashed' = TRUE
              ELSE /\ Put(c, blockBegin(g, IF k = "chunk_info" THEN "top" ELSE "nested", ci))
                   /\ UNCHANGED crashed
    /\ UNCHANGED <<client, rateLimit, now, callers, ctx>>

\* GetWithCache: setCachedData(uri, data, ttl); the store may refuse the write
setCachedData(c) ==
    /\ ~crashed /\ frame[c].pc = "gwc_store"
    /\ LET f == frame[c] IN
       \E ok \in BOOLEAN :
           IF ok
           THEN /\ cask' = [cask EXCEPT !.kv =
                               caskPut(@, hashKey(f.uri), f.data, f.ttl, now),
                                         !.records = @ + 1]
                /\ Put(c, Done([f EXCEPT !.stored = TRUE, !.at = now],
                                 f.data, NoErr, ZeroTime))
           ELSE /\ cask' = cask
                /\ Put(c, storeFailed(f))
    /\ UNCHANGED <<isAuthed, getRetries, rateLimitHandler, session,
                   authTokenFile, tokenFile, lastGrant, posted, creds, rateLimit, now,
                   callers, ctx, crashed>>

\* the call has returned to the caller, who goes on
Return(c) ==
    /\ ~crashed /\ frame[c].pc = "done"
    /\ frame' = [frame EXCEPT ![c] = IdleFrame]
    /\ recent' = IF frame[c].op = "GetWithCache" /\ frame[c].stored /\ frame[c].at = now
                 THEN [uri |-> frame[c].uri, ttl |-> frame[c].ttl, data |-> frame[c].data]
                 ELSE NoRecent
    /\ UNCHANGED <<client, rateLimit, now, callers, ctx, crashed>>

----------------------------------------------------------------------------
(* The cache's own operations, called by themselves as the cache tests do *)

\* the cache is open and c may call it
CanCache(c) ==
    /\ ~crashed /\ c \in callers /\ frame[c].pc = "idle"
    /\ cask.open /\ cask.closes = 0

\* setCachedData(key, data, ttl)
cacheSet(c, key, data, ttl) ==
    /\ CanCache(c) /\ cask.records < MaxRecords
    /\ \E ok \in BOOLEAN :
         LET w == cachePut(cask.kv, key, data, ttl, now, ok) IN
         /\ cask' = [cask EXCEPT !.kv = w.kv,
                                 !.records = IF w.err = NoErr THEN @ + 1 ELSE @]
         /\ Put(c, Done([IdleFrame EXCEPT !.op = "setCachedData", !.uri = key,
                                          !.ttl = ttl],
                        data, w.err, ZeroTime))
    /\ UNCHANGED <<isAuthed, getRetries, rateLimitHandler, session,
                   authTokenFile, tokenFile, lastGrant, posted, creds, rateLimit, now,
                   callers, ctx, crashed>>

\* getCachedData(key)
cacheGet(c, key) ==
    /\ CanCache(c)
    /\ \E r \in caskGet(cask.kv, hashKey(key), now) :
         LET g == getCachedData(r) IN
         Put(c, Done([IdleFrame EXCEPT !.op = "getCachedData", !.uri = key,
                                      !.at = now],
                     g.data, g.err, ZeroTime))
    /\ UNCHANGED <<client, rateLimit, now, callers, ctx, crashed>>

\* deleteCachedData(key); the store keeps a record of the deletion
cacheDelete(c, key) ==
    /\ CanCache(c) /\ cask.records < MaxRecords
    /\ \E ok \in BOOLEAN :
         LET d == deleteCachedData(cask.kv, key, ok) IN
         /\ cask' = [cask EXCEPT !.kv = d.kv,
                                 !.records = IF d.kv # cask.kv THEN @ + 1 ELSE @]
         /\ Put(c, Done([IdleFrame EXCEPT !.op = "deleteCachedData", !.uri = key],
                        NoData, d.err, ZeroTime))
    /\ UNCHANGED <<isAuthed, getRetries, rateLimitHandler, session,
                   authTokenFile, tokenFile, lastGrant, posted, creds, rateLimit, now,
                   callers, ctx, crashed>>

----------------------------------------------------------------------------
(* Close and CloseFast *)

\* the client is done with: no call is running and the store was not closed
CanClose(c) ==
    /\ ~crashed /\ c \in callers /\ AllIdle /\ cask.closes = 0

\* Close: if i.cask != nil { i.cacheClose() }
Close(c) ==
    /\ CanClose(c)
    /\ LET f == [IdleFrame EXCEPT !.op = "Close",
                                  !.close = [NoClose EXCEPT !.records = cask.records,
                                                            !.stale = staleRecords(cask)]]
       IN Put(c, IF cask.open THEN [f EXCEPT !.pc = "cl_gc"]
                 ELSE Done(f, NoData, NoErr, ZeroTime))
    /\ UNCHANGED <<client, rateLimit, now, callers, ctx, crashed>>

\* cacheClose: err := i.cask.RunGC(), which is only logged
cacheCloseRunGC(c) ==
    /\ ~crashed /\ frame[c].pc = "cl_gc"
    /\ \E ok \in BOOLEAN :
         cask' = IF ok THEN [cask EXCEPT !.kv = caskRunGC(@, now)] ELSE cask
    /\ Put(c, [frame[c] EXCEPT !.pc = "cl_merge", !.close.attempts = 1,
                               !.close.gcs = @ + 1])
    /\ UNCHANGED <<isAuthed, getRetries, rateLimitHandler, session,
                   authTokenFile, tokenFile, lastGrant, posted, creds, rateLimit, now,
                   callers, ctx, crashed>>

\* cacheClose: the loop around i.cask.Merge()
cacheCloseMerge(c) ==
    /\ ~crashed /\ frame[c].pc = "cl_merge"
    /\ LET f == frame[c] IN
       IF ~mergeMayRun(f.close.attempts)
       THEN Put(c, [f EXCEPT !.pc = "cl_close"]) /\ cask' = cask
       ELSE \E err \in caskMerge(cask.kv, now) :
              LET g == [f EXCEPT !.close.err = err, !.close.merges = @ + 1] IN
              IF afterMerge(err) = "retry"
              THEN /\ \E ok \in BOOLEAN :
                        cask' = IF ok THEN [cask EXCEPT !.kv = caskRunGC(@, now)]
                                ELSE cask
                   /\ Put(c, [g EXCEPT !.close.attempts = @ + 1, !.close.gcs = @ + 1])
              ELSE /\ cask' = IF err = NoErr THEN merged(cask) ELSE cask
                   /\ Put(c, [g EXCEPT !.pc = "cl_close"])
    /\ UNCHANGED <<isAuthed, getRetries, rateLimitHandler, session,
                   authTokenFile, tokenFile, lastGrant, posted, creds, rateLimit, now,
                   callers, ctx, crashed>>

\* cacheClose: defer i.cask.Close()
cacheCloseDeferred(c) ==
    /\ ~crashed /\ frame[c].pc = "cl_close"
    /\ cask' = [cask EXCEPT !.closes = @ + 1]
    /\ Put(c, Done(frame[c], NoData, NoErr, ZeroTime))
    /\ UNCHANGED <<isAuthed, getRetries, rateLimitHandler, session,
                   authTokenFile, tokenFile, lastGrant, posted, creds, rateLimit, now,
                   callers, ctx, crashed>>

\* CloseFast on a client with the cache enabled: i.cacheCloseFast()
CloseFast(c) ==
    /\ CanClose(c) /\ cask.open
    /\ LET f == [IdleFrame EXCEPT !.op = "CloseFast",
                                  !.close = [NoClose EXCEPT !.records = cask.records,
                                                            !.stale = staleRecords(cask)]]
       IN Put(c, Done(f, NoData, NoErr, ZeroTime))
    /\ cask' = cacheCloseFast(cask)
    /\ UNCHANGED <<isAuthed, getRetries, rateLimitHandler, session,
                   authTokenFile, tokenFile, lastGrant, posted, creds, rateLimit, now,
                   callers, ctx, crashed>>

----------------------------------------------------------------------------
(* retryingGet and updateRateLimit once more, a statement at a time, for      *)
(* goroutines that share the client: taking and releasing rateLimitMu are     *)
(* steps of their own, and so is every read and write made under it           *)

\* sync.Mutex: Lock returns when nobody holds the mutex
lockFreeAlways(mu) == TRUE
lockFree(mu) == mu = ""

\* where retryingGet and updateRateLimit call i.rateLimitMu.Lock(), and where
\* each goes on holding it: before the proactive check, on entering
\* updateRateLimit, and after a 429 to read the reset time
LockSites ==
    ("rg_check" :> "rg_locked") @@ ("ur_lock" :> "ur_remaining") @@ ("rs_lock" :> "rs_locked")

\* a goroutine is started that makes calls on the client
Spawn(c) ==
    /\ ~crashed /\ c \notin callers
    /\ callers' = callers \cup {c}
    /\ recent' = NoRecent
    /\ UNCHANGED <<client, rateLimit, now, ctx, frame, crashed>>

\* i.rateLimitMu.Lock()
rateLimitMuLock(c) ==
    /\ ~crashed /\ frame[c].pc \in DOMAIN LockSites
    /\ lockFree(rateLimitMu)
    /\ rateLimitMu' = c
    /\ Put(c, [frame[c] EXCEPT !.pc = LockSites[@]])
    /\ UNCHANGED <<client, rateLimitRemaining, rateLimitReset, now, callers, ctx, crashed>>

\* retryingGet: the condition of the proactive check is evaluated:
\* i.rateLimitRemaining <= 0 && time.Now().Before(i.rateLimitReset)
readRateLimit(c) ==
    /\ ~crashed /\ frame[c].pc = "rg_locked"
    /\ Put(c, [frame[c] EXCEPT
                  !.pc = "rg_unlock",
                  !.seen = [remaining |-> rateLimitRemaining, reset |-> rateLimitReset,
                            limited |-> rateLimitReached(rateLimitRemaining,
                                                         rateLimitReset, now),
                            read |-> TRUE]])
    /\ UNCHANGED <<client, rateLimit, now, callers, ctx, crashed>>

\* retryingGet: i.rateLimitMu.Unlock() in either branch of the proactive check,
\* and what follows it: the error, the wait, or the loop
unlockAfterCheck(c) ==
    /\ ~crashed /\ frame[c].pc = "rg_unlock"
    /\ rateLimitMu' = ""
    /\ LET f == frame[c] IN
       IF f.seen.limited
       THEN IF rejects(rateLimitHandler)
            THEN Put(c, [f EXCEPT !.pc = "rg_ret",
                                  !.rerr = "rate limit exceeded",
                                  !.rreset = f.seen.reset])
            ELSE Put(c, [f EXCEPT !.pc = "rg_wait",
                                  !.nap = proactiveWait(f.seen.reset, now),
                                  !.wake = now + proactiveWait(f.seen.reset, now)])
       ELSE Put(c, [f EXCEPT !.pc = "rg_loop", !.retries = getRetries])
    /\ UNCHANGED <<client, rateLimitRemaining, rateLimitReset, now, callers, ctx, crashed>>

\* retryingGet: the loop condition and i.httpClient.Get(url); with a response
\* in hand updateRateLimit is called
sendRequest(c, answers) ==
    /\ ~crashed /\ frame[c].pc = "rg_loop"
    /\ LET f == frame[c] IN
       IF ~mayAttempt(f.retries)
       THEN Put(c, [f EXCEPT !.pc = "rg_ret"])
       ELSE \E a \in Answers(f, answers) :
              IF a = NoResp
              THEN Put(c, networkError(f))
              ELSE Put(c, [f EXCEPT !.pc = "ur_lock",
                                    !.resp = [a EXCEPT !.remaining = "", !.reset = ""],
                                    !.hdrs = [remaining |-> a.remaining,
                                              reset |-> a.reset],
                                    !.left429 = IF a.status = StatusTooManyRequests
                                                THEN @ - 1 ELSE @,
                                    !.sent = @ + 1, !.nap = 0])
    /\ UNCHANGED <<client, rateLimit, now, callers, ctx, crashed>>

\* updateRateLimit: i.rateLimitRemaining = val, if the header parses
storeRemaining(c) ==
    /\ ~crashed /\ frame[c].pc = "ur_remaining"
    /\ rateLimitRemaining' = updateRemaining(rateLimitRemaining, frame[c].hdrs.remaining)
    /\ Put(c, [frame[c] EXCEPT !.pc = "ur_reset"])
    /\ UNCHANGED <<client, rateLimitMu, rateLimitReset, now, callers, ctx, crashed>>

\* updateRateLimit: i.rateLimitReset = time.Unix(val, 0), if the header parses
storeReset(c) ==
    /\ ~crashed /\ frame[c].pc = "ur_reset"
    /\ rateLimitReset' = updateReset(rateLimitReset, frame[c].hdrs.reset)
    /\ Put(c, [frame[c] EXCEPT !.pc = "ur_unlock"])
    /\ UNCHANGED <<client, rateLimitMu, rateLimitRemaining, now, callers, ctx, crashed>>

\* updateRateLimit: the deferred i.rateLimitMu.Unlock()
unlockAfterUpdate(c) ==
    /\ ~crashed /\ frame[c].pc = "ur_unlock"
    /\ rateLimitMu' = ""
    /\ Put(c, [frame[c] EXCEPT !.pc = "rg_status"])
    /\ UNCHANGED <<client, rateLimitRemaining, rateLimitReset, now, callers, ctx, crashed>>

\* retryingGet: what the loop does with the response's status; after a 429 the
\* reset time is read under the mutex
branchOnStatus(c) ==
    /\ ~crashed /\ frame[c].pc = "rg_status"
    /\ LET f == frame[c]
           a == statusAction(f.resp.status)
           b == backoff(getRetries, f.retries - 1)
       IN
       IF a = "ratelimit"
       THEN Put(c, [f EXCEPT !.pc = "rs_lock", !.hdrs = NoHeaders])
       ELSE IF a = "break"
       THEN Put(c, [f EXCEPT !.pc = "rg_ret", !.hdrs = NoHeaders])
       ELSE Put(c, [f EXCEPT !.pc = "rg_sleep", !.hdrs = NoHeaders, !.retries = @ - 1,
                             !.nap = b, !.wake = now + b])
    /\ UNCHANGED <<client, rateLimit, now, callers, ctx, crashed>>

\* retryingGet, after a 429: resetTime := i.rateLimitReset
readReset(c) ==
    /\ ~crashed /\ frame[c].pc = "rs_locked"
    /\ Put(c, [frame[c] EXCEPT !.pc = "rs_unlock", !.rreset = rateLimitReset])
    /\ UNCHANGED <<client, rateLimit, now, callers, ctx, crashed>>

\* retryingGet, after a 429: i.rateLimitMu.Unlock(), and the error or the sleep
\* until resetTime
unlockAfterReset(c) ==
    /\ ~crashed /\ frame[c].pc = "rs_unlock"
    /\ rateLimitMu' = ""
    /\ LET f == frame[c]
           w == waitAfter429(f.rreset, now)
       IN
       IF rejects(rateLimitHandler)
       THEN Put(c, [f EXCEPT !.pc = "rg_ret", !.resp = NoResp,
                             !.rerr = "rate limit exceeded"])
       ELSE Put(c, [f EXCEPT !.pc = "rg_sleep", !.rreset = ZeroTime,
                             !.nap = w, !.wake = now + w])
    /\ UNCHANGED <<client, rateLimitRemaining, rateLimitReset, now, callers, ctx, crashed>>

----------------------------------------------------------------------------
(* The session: auth and refreshToken *)

\* credentials handed to auth
Creds ==
    {[MaskedPassword |-> mp, ClientID |-> id, ClientSecret |-> cs] :
        mp \in {"", "mp"}, id \in {"", "id"}, cs \in {"", "cs"}}

\* answers of the token endpoint: status 0 is a network-level error
TokenFailures ==
    {[status |-> st, decodable |-> FALSE, access |-> "", refresh |-> "", expires |-> 0] :
        st \in {0, 400, 401, 429, 500}}
TokenGrants ==
    {[status |-> 200, decodable |-> TRUE, access |-> a, refresh |-> r, expires |-> 60] :
        a \in {"", "t1", "t2"}, r \in {"", "r1"}}
    \cup {[status |-> 200, decodable |-> FALSE, access |-> "", refresh |-> "", expires |-> 0]}
TokenAnswers == TokenFailures \cup TokenGrants

\* auth: retries := 5
AuthAttempts == 5

\* auth: the POST is tried again after a network error, a 5xx or a 429
authRetriesClientErrors(ans) == ans.status # StatusOK
authRetries(ans) ==
    ~(ans.status # 0 /\ ans.status < ServerErrorFloor /\ ans.status # StatusTooManyRequests)

\* auth: backoff := (6-retries)*5 seconds, retries already decremented:
\* the sleep after the j-th failed attempt
authBackoff(j) == (6 - (AuthAttempts - j)) * BackoffUnit

RECURSIVE authSlept(_)
authSlept(k) == IF k = 0 THEN 0 ELSE authBackoff(k) + authSlept(k - 1)

\* refreshToken: [err, session, sent] for the session s, the token endpoint
\* answering ans at time t
refreshTokenForgetsOnFailure(s, ans, t) ==
    IF s.RefreshToken = ""
    THEN [err |-> "no refresh token available", session |-> s, sent |-> FALSE]
    ELSE IF ans.status # StatusOK \/ ~ans.decodable
    THEN [err |-> "refresh failed", sent |-> TRUE,
          session |-> [s EXCEPT !.AccessToken = "", !.TokenExpiry = ZeroTime]]
    ELSE [err |-> NoErr, sent |-> TRUE,
          session |-> [s EXCEPT !.AccessToken = ans.access,
                                !.TokenExpiry = t + ans.expires,
                                !.RefreshToken = IF ans.refresh # "" THEN ans.refresh ELSE @]]
refreshTokenAlwaysRotates(s, ans, t) ==
    IF s.RefreshToken = "" \/ ans.status # StatusOK \/ ~ans.decodable
    THEN [err |-> "refresh failed", session |-> s, sent |-> s.RefreshToken # ""]
    ELSE [err |-> NoErr, sent |-> TRUE,
          session |-> [s EXCEPT !.AccessToken = ans.access,
                                !.TokenExpiry = t + ans.expires,
                                !.RefreshToken = ans.refresh]]
refreshTokenKeepsAccess(s, ans, t) ==
    IF s.RefreshToken = "" \/ ans.status # StatusOK \/ ~ans.decodable
    THEN [err |-> "refresh failed", session |-> s, sent |-> s.RefreshToken # ""]
    ELSE [err |-> NoErr, sent |-> TRUE,
          session |-> [s EXCEPT !.TokenExpiry = t + ans.expires]]
refreshToken(s, ans, t) ==
    IF s.RefreshToken = ""
    THEN [err |-> "no refresh token available", session |-> s, sent |-> FALSE]
    ELSE IF ans.status = 0
    THEN [err |-> "refresh request failed", session |-> s, sent |-> TRUE]
    ELSE IF ans.status # StatusOK
    THEN [err |-> "refresh failed", session |-> s, sent |-> TRUE]
    ELSE IF ~ans.decodable
    THEN [err |-> "failed to decode refresh response", session |-> s, sent |-> TRUE]
    ELSE [err |-> NoErr, sent |-> TRUE,
          session |-> [s EXCEPT !.AccessToken = ans.access,
                                !.TokenExpiry = t + ans.expires,
                                !.RefreshToken = IF ans.refresh # "" THEN ans.refresh ELSE @]]

\* writeAuthToken: the token file after the write (ok: os.WriteFile worked);
\* the error is not looked at by auth
writeAuthToken(file, path, keyFilename, s, ok) ==
    IF path = "" \/ keyFilename = "" \/ getKey(keyFilename).err # NoErr \/ ~ok
    THEN file
    ELSE [exists |-> TRUE, key |-> getKey(keyFilename).key, token |-> s]

\* readAuthToken: [ok, token]: the token of the file, if a token file is
\* configured, a key file is given and the file opens with its key
readAuthTokenNever(file, path, keyFilename) == [ok |-> FALSE, token |-> NoSession]
readAuthToken(file, path, keyFilename) ==
    IF path = "" \/ keyFilename = "" \/ getKey(keyFilename).err # NoErr
       \/ ~file.exists \/ file.key # getKey(keyFilename).key
    THEN [ok |-> FALSE, token |-> NoSession]
    ELSE [ok |-> TRUE, token |-> file.token]

\* auth: the password limited grant, after the token file was of no use.
\* s is the session so far, k the number of attempts that were retried, ans
\* the answer to the last attempt
passwordGrant(s, authData, k, ans, t) ==
    IF authData.MaskedPassword = "" \/ authData.ClientID = "" \/ authData.ClientSecret = ""
    THEN [err |-> "missing credentials", session |-> s, authed |-> FALSE, slept |-> 0]
    ELSE LET s1 == [s EXCEPT !.ClientID = authData.ClientID,
                             !.ClientSecret = authData.ClientSecret]
             t1 == t + authSlept(k)
         IN IF ans.status = 0
            THEN [err |-> "post to token endpoint failed", session |-> s1,
                  authed |-> FALSE, slept |-> authSlept(k)]
            ELSE IF ans.status # StatusOK
            THEN [err |-> "unexpected auth failure", session |-> s1,
                  authed |-> FALSE, slept |-> authSlept(k)]
            ELSE IF ~ans.decodable
            THEN [err |-> "failed to decode token response", session |-> s1,
                  authed |-> FALSE, slept |-> authSlept(k)]
            ELSE [err |-> NoErr, authed |-> TRUE, slept |-> authSlept(k),
                  session |-> [s1 EXCEPT !.AccessToken = ans.access,
                                         !.RefreshToken = ans.refresh,
                                         !.TokenExpiry = t1 + ans.expires]]

\* SetAuthTokenFile
SetAuthTokenFile(path) ==
    /\ ~crashed /\ AllIdle
    /\ authTokenFile' = path
    /\ recent' = NoRecent
    /\ UNCHANGED <<isAuthed, cask, getRetries, rateLimitHandler, session,
                   tokenFile, lastGrant, posted, creds, rateLimit, now,
                   callers, ctx, frame, crashed>>

\* auth: the token endpoint's part in the password limited grant: k attempts
\* were retried (answered with answers that are retried) and the last attempt
\* was answered with ans
GrantRuns(answers) ==
    {<<k, ans>> \in (0 .. AuthAttempts) \X answers :
        /\ IF authRetries(ans) THEN k = AuthAttempts ELSE k < AuthAttempts
        /\ k > 0 => \E a \in answers : authRetries(a)}

\* auth, from the password limited grant on; g is the grant_type of the last
\* POST so far, post what this call has POSTed so far
authByPassword(s, authData, keyFilename, answers, g, post) ==
    LET missing == authData.MaskedPassword = "" \/ authData.ClientID = ""
                   \/ authData.ClientSecret = ""
    IN
    \E run \in (IF missing THEN {<<0, NoAnswer>>} ELSE GrantRuns(answers)) :
      LET pg == passwordGrant(s, authData, run[1], run[2], now) IN
      /\ isAuthed' = pg.authed
      /\ session' = pg.session
      /\ now' = now + pg.slept
      /\ lastGrant' = IF missing THEN g ELSE "password_limited"
      /\ posted' = IF missing THEN post
                   ELSE [post EXCEPT !.password = authData.MaskedPassword,
                                     !.client_id = authData.ClientID,
                                     !.client_secret = maskSecret(authData.ClientSecret,
                                                                  authData.ClientID),
                                     !.grant = run[2]]
      /\ IF pg.authed
         THEN \E wrote \in BOOLEAN :
                tokenFile' = writeAuthToken(tokenFile, authTokenFile, keyFilename,
                                            pg.session, wrote)
         ELSE tokenFile' = tokenFile

\* auth(authData, keyFilename).  All of auth but for the credentials file, which
\* its callers may write afterwards
authFlow(authData, keyFilename, answers) ==
    /\ ~crashed /\ AllIdle /\ ~isAuthed /\ now <= MaxTime
    /\ recent' = NoRecent
    /\ LET fr == readAuthToken(tokenFile, authTokenFile, keyFilename) IN
         IF ~fr.ok
         THEN authByPassword(session, authData, keyFilename, answers, lastGrant, NoPost)
         ELSE IF ~(fr.token.TokenExpiry < now)
         THEN /\ isAuthed' = TRUE /\ session' = fr.token
              /\ posted' = NoPost
              /\ UNCHANGED <<now, tokenFile, lastGrant>>
         ELSE \E ra \in answers :
                LET rr == refreshToken(fr.token, ra, now)
                    g == IF rr.sent THEN "refresh_token" ELSE lastGrant
                    post == IF rr.sent
                            THEN [NoPost EXCEPT !.refresh_token = fr.token.RefreshToken,
                                                !.refresh = ra]
                            ELSE NoPost
                IN
                IF rr.err = NoErr
                THEN /\ isAuthed' = TRUE /\ session' = rr.session
                     /\ lastGrant' = g
                     /\ posted' = post
                     /\ \E wrote \in BOOLEAN :
                          tokenFile' = writeAuthToken(tokenFile, authTokenFile,
                                                      keyFilename, rr.session, wrote)
                     /\ UNCHANGED now
                ELSE authByPassword(rr.session, authData, keyFilename, answers, g, post)
    /\ UNCHANGED <<cask, getRetries, rateLimitHandler, authTokenFile, rateLimit,
                   callers, ctx, frame, crashed>>

\* auth, called with credentials that are at hand
auth(authData, keyFilename, answers) ==
    authFlow(authData, keyFilename, answers) /\ UNCHANGED creds

\* what auth leaves alone when it is not reached
authUntouched ==
    UNCHANGED <<isAuthed, session, now, tokenFile, lastGrant, posted, cask,
                getRetries, rateLimitHandler, authTokenFile, rateLimit, callers, ctx,
                frame, crashed>>

\* auth once more, a statement at a time, for a client without a token file:
\* the credentials are checked and kept, then the password limited grant is
\* POSTed in the loop "for retries > 0"
authBegin(c, authData) ==
    /\ ~crashed /\ c \in callers /\ frame[c].pc = "idle" /\ ~isAuthed /\ now <= MaxTime
    /\ authTokenFile = ""
    /\ LET pg == passwordGrant(session, authData, 0, NoAnswer, now)
           f == [IdleFrame EXCEPT !.op = "auth", !.grant.authData = authData]
       IN IF pg.err = "missing credentials"
          THEN Put(c, Done(f, NoData, pg.err, ZeroTime)) /\ session' = session
          ELSE /\ Put(c, [f EXCEPT !.pc = "au_loop", !.grant.retries = AuthAttempts])
               /\ session' = pg.session
    /\ posted' = NoPost
    /\ UNCHANGED <<isAuthed, cask, getRetries, rateLimitHandler, authTokenFile,
                   tokenFile, lastGrant, creds, rateLimit, now, callers, ctx, crashed>>

\* auth: for retries > 0 { resp, err = i.httpClient.PostForm(TokenURL, formData);
\* break unless it is to be retried; retries--; backoff := ... }
authPostForm(c, answers) ==
    /\ ~crashed /\ frame[c].pc = "au_loop"
    /\ LET f == frame[c]
           g == f.grant IN
       IF g.retries = 0
       THEN Put(c, [f EXCEPT !.pc = "au_done"]) /\ UNCHANGED <<lastGrant, posted>>
       ELSE \E ans \in answers :
              /\ lastGrant' = "password_limited"
              /\ posted' = [posted EXCEPT !.password = g.authData.MaskedPassword,
                                          !.client_id = g.authData.ClientID,
                                          !.client_secret = maskSecret(g.authData.ClientSecret,
                                                                       g.authData.ClientID),
                                          !.grant = ans]
              /\ LET h == [f EXCEPT !.grant.resp = ans,
                                    !.grant.tries = Append(@, ans.status)] IN
                 IF authRetries(ans)
                 THEN Put(c, [h EXCEPT !.pc = "au_sleep", !.grant.retries = @ - 1,
                                       !.grant.nap = authBackoff(AuthAttempts - (g.retries - 1))])
                 ELSE Put(c, [h EXCEPT !.pc = "au_done"])
    /\ UNCHANGED <<isAuthed, cask, getRetries, rateLimitHandler, session, authTokenFile,
                   tokenFile, creds, rateLimit, now, callers, ctx, crashed>>

\* auth: time.Sleep(backoff)
authSleep(c) ==
    /\ ~crashed /\ frame[c].pc = "au_sleep"
    /\ now' = now + frame[c].grant.nap
    /\ Put(c, [frame[c] EXCEPT !.pc = "au_loop", !.grant.naps = Append(@, frame[c].grant.nap)])
    /\ UNCHANGED <<client, rateLimit, callers, ctx, crashed>>

\* auth, after the loop: the error, the status and the body of the last answer
authEnd(c) ==
    /\ ~crashed /\ frame[c].pc = "au_done"
    /\ LET f == frame[c]
           pg == passwordGrant(session, f.grant.authData, 0, f.grant.resp, now) IN
       Put(c, IF pg.err # NoErr THEN Done(f, NoData, pg.err, ZeroTime)
              ELSE [f EXCEPT !.pc = "au_access"])
    /\ UNCHANGED <<client, rateLimit, now, callers, ctx, crashed>>

\* auth: i.AccessToken = ...; i.RefreshToken = ...; i.TokenExpiry = ...;
\* i.isAuthed = true, one assignment at a time and under no lock
AuthStores ==
    ("au_access" :> "au_refresh") @@ ("au_refresh" :> "au_expiry")
    @@ ("au_expiry" :> "au_authed") @@ ("au_authed" :> "done")
authStore(c) ==
    /\ ~crashed /\ frame[c].pc \in DOMAIN AuthStores
    /\ LET f == frame[c]
           pg == passwordGrant(session, f.grant.authData, 0, f.grant.resp, now) IN
       /\ session' = CASE f.pc = "au_access" ->
                             [session EXCEPT !.AccessToken = pg.session.AccessToken]
                        [] f.pc = "au_refresh" ->
                             [session EXCEPT !.RefreshToken = pg.session.RefreshToken]
                        [] f.pc = "au_expiry" ->
                             [session EXCEPT !.TokenExpiry = pg.session.TokenExpiry]
                        [] OTHER -> session
       /\ isAuthed' = IF f.pc = "au_authed" THEN TRUE ELSE isAuthed
       /\ Put(c, IF f.pc = "au_authed" THEN Done(f, NoData, NoErr, ZeroTime)
                 ELSE [f EXCEPT !.pc = AuthStores[f.pc]])
    /\ UNCHANGED <<cask, getRetries, rateLimitHandler, authTokenFile, tokenFile,
                   lastGrant, posted, creds, rateLimit, now, callers, ctx, crashed>>

\* a request of an authenticated client reads the session's token: the access
\* token it sends and the expiry it goes by
readSession(c) ==
    /\ ~crashed /\ c \in callers /\ frame[c].pc = "idle" /\ isAuthed
    /\ Put(c, Done([IdleFrame EXCEPT !.op = "request", !.token = session],
                   NoData, NoErr, ZeroTime))
    /\ UNCHANGED <<client, rateLimit, now, callers, ctx, crashed>>


\* Open: a new client; the files on disk stay
Open ==
    /\ ~crashed /\ AllIdle /\ isAuthed
    /\ isAuthed' = FALSE
    /\ session' = NoSession
    /\ authTokenFile' = ""
    /\ getRetries' = DefaultRetries
    /\ rateLimitHandler' = RateLimitError
    /\ rateLimitMu' = ""
    /\ rateLimitRemaining' = 0
    /\ rateLimitReset' = ZeroTime
    /\ cask' = [cask EXCEPT !.open = FALSE]
    /\ recent' = NoRecent
    /\ UNCHANGED <<now, tokenFile, lastGrant, posted, creds, callers, ctx, frame, crashed>>

\* the nonces makeNonce can draw
Nonces == {"n1", "n2"}

\* writeCreds(keyFilename, authFilename, authData), called by itself
WriteCreds(keyFilename, authData) ==
    /\ ~crashed /\ AllIdle
    /\ \E nonce \in Nonces, ok \in BOOLEAN :
         LET w == writeCreds(keyFilename, creds.file, authData, nonce, ok) IN
         creds' = [creds EXCEPT !.file = w.file,
                                !.wrote = IF w.err = NoErr
                                          THEN [key |-> keyFilename, authData |-> authData]
                                          ELSE @,
                                !.read = NoRead, !.given = NoGiven]
    /\ recent' = NoRecent
    /\ authUntouched

\* readCreds(keyFilename, authFilename), called by itself
ReadCreds(keyFilename) ==
    /\ ~crashed /\ AllIdle
    /\ LET r == readCreds(keyFilename, creds.file) IN
       creds' = [creds EXCEPT !.read = [key |-> keyFilename, authData |-> r.authData,
                                        err |-> r.err],
                              !.given = NoGiven]
    /\ recent' = NoRecent
    /\ authUntouched

\* AuthWithCredsFromFile(keyFilename, authFilename)
AuthWithCredsFromFile(keyFilename, answers) ==
    LET r == readCreds(keyFilename, creds.file) IN
    /\ ~crashed /\ AllIdle
    /\ creds' = [creds EXCEPT !.read = [key |-> keyFilename, authData |-> r.authData,
                                        err |-> r.err],
                              !.given = NoGiven]
    /\ IF r.err # NoErr
       THEN recent' = NoRecent /\ authUntouched
       ELSE authFlow(r.authData, keyFilename, answers)

\* AuthWithProvideCreds(authSource); given: what authSource.GetCreds returned
AuthWithProvideCreds(given, answers) ==
    /\ authFlow(authDataOf(given), "", answers)
    /\ creds' = [creds EXCEPT !.given = given, !.read = NoRead]

\* AuthAndSaveProvidedCredsToFile(keyFilename, authFilename, authSource): the
\* key file is checked, auth is called and the credentials are written if it
\* succeeded
AuthAndSaveProvidedCredsToFile(keyFilename, given, answers) ==
    /\ getKey(keyFilename).err = NoErr
    /\ authFlow(authDataOf(given), keyFilename, answers)
    /\ \E nonce \in Nonces, ok \in BOOLEAN :
         LET w == writeCreds(keyFilename, creds.file, authDataOf(given), nonce, ok) IN
         creds' = IF ~isAuthed' \/ w.err # NoErr
                  THEN [creds EXCEPT !.given = given, !.read = NoRead]
                  ELSE [creds EXCEPT !.given = given, !.read = NoRead,
                                     !.file = w.file,
                                     !.wrote = [key |-> keyFilename,
                                                authData |-> authDataOf(given)]]

----------------------------------------------------------------------------
(* The specifications *)

Retries == (0 .. MaxRetries) \cup {DefaultRetries}

\* the credentials and the token endpoint's answers while the fetch engine is
\* explored: complete or incomplete credentials, a grant refused or given
FetchCreds ==
    {[MaskedPassword |-> mp, ClientID |-> "id", ClientSecret |-> "cs"] : mp \in {"", "mp"}}
FetchTokenAnswers ==
    {a \in TokenAnswers : a.status \in {0, 401}
                          \/ (a.decodable /\ a.access = "t1" /\ a.refresh = "r1")}

\* every answer of the network
AllAnswers ==
    {NoResp} \cup Responses(Statuses, RemainingHeaders, ResetHeaders, ApiBodies)

\* the answers of a network that sends no rate limit headers and no 429 or 5xx
PlainAnswers ==
    {NoResp} \cup Responses({StatusOK, 404}, {""}, {""}, ApiBodies)

\* a caller's steps inside retryingGet and Get
Step(c, answers) ==
    \/ proactiveCheck(c)
    \/ proactiveWaitOver(c)
    \/ httpClientGet(c, answers)
    \/ handleStatus(c)
    \/ sleepOver(c)
    \/ getResume(c)

\* The transport: one caller's Get calls under every configuration
Next ==
    \/ \E n \in Retries : SetRetries(n)
    \/ \E h \in {RateLimitError, RateLimitWait} : SetRateLimitHandler(h)
    \/ \E authData \in FetchCreds : auth(authData, "", FetchTokenAnswers)
    \/ Tick
    \/ \E c \in Procs : \E uri \in {"/a", BadUri} : Get(c, uri)
    \/ \E c \in Procs : Return(c)
    \/ \E c \in Procs : Step(c, AllAnswers)

Spec == Init /\ [][Next]_vars

\* the answers of a server that rate limits: a 200 with data, a 429 or a 500,
\* with or without the headers of a used-up limit; the grant always given
WaitAnswers ==
    {NoResp} \cup Responses({StatusOK, StatusTooManyRequests, 500}, {"", "0"},
                            {"", "6"}, {Plain("x"), Plain("y")})
WaitCreds == {a \in FetchCreds : a.MaskedPassword # ""}
WaitTokenAnswers == {a \in FetchTokenAnswers : a.status = StatusOK}

\* The transport under either rate limit policy, with a caller that goes on
\* running: a goroutine inside a call takes its next step, a sleep ends
NextLive ==
    \/ \E n \in 1 .. MaxRetries : SetRetries(n)
    \/ \E h \in {RateLimitError, RateLimitWait} : SetRateLimitHandler(h)
    \/ \E authData \in WaitCreds : auth(authData, "", WaitTokenAnswers)
    \/ Tick
    \/ \E c \in Procs : Get(c, "/a")
    \/ \E c \in Procs : Return(c)
    \/ \E c \in Procs : Step(c, WaitAnswers)

SpecLive ==
    Init /\ [][NextLive]_vars /\ \A c \in Procs : WF_vars(Step(c, WaitAnswers))

\* The cache: one caller's GetWithCache calls over a network that sends no
\* rate limit headers, no 429 and no 5xx (so that nobody waits or sleeps)
NextCache ==
    \/ EnableCache
    \/ \E authData \in FetchCreds : auth(authData, "", FetchTokenAnswers)
    \/ Tick
    \/ \E c \in Procs : \E uri \in Uris \cup {BadUri}, ttl \in 0 .. MaxTtl :
           GetWithCache(c, uri, ttl)
    \/ \E c \in Procs : Return(c)
    \/ \E c \in Procs : proactiveCheck(c)
    \/ \E c \in Procs : httpClientGet(c, PlainAnswers)
    \/ \E c \in Procs : handleStatus(c)
    \/ \E c \in Procs : getResume(c)
    \/ \E c \in Procs : setCachedData(c)

SpecCache == Init /\ [][NextCache]_vars

\* the bodies the API can answer a Get with: data, a link, an empty link, a
\* data_url, both, text with the chunk marker, and objects with chunk_info
\* blocks of their own and of the object under "data"
ChunkInfos(n) ==
    {NoChunkInfo, NullChunkInfo, BadChunkInfo} \cup {ChunkList(l) : l \in NameLists(n)}
ChunkDocs ==
    {Object(ci, sub) :
        ci \in ChunkInfos(MaxChunks),
        sub \in {NoSub} \cup {Sub(ni) : ni \in ChunkInfos(MaxChunks - 1)}}
LinkBodies ==
    {Plain("x"), Link("s3://l"), Link(""), DataUrl("s3://d"),
     Both("s3://l", "s3://d"), Both("", "s3://d"), MarkerText}
ChunkAnswers ==
    {NoResp} \cup Responses({StatusOK, 404}, {""}, {""},
                            LinkBodies \cup ChunkDocs \cup FollowBodies \cup ChunkBodies)

\* hosts that answer with 200, 401 or 404, and whose 401s and 404s carry a body
\* too: a text and a JSON array that no 200 carries
StatusAnswers ==
    {NoResp}
    \cup {[status |-> StatusOK, remaining |-> "", reset |-> "", body |-> b] :
            b \in {Plain("x"), Link("s3://l"), DataUrl("s3://d"),
                   Object(ChunkList(<<"c0">>), NoSub),
                   Object(ChunkList(<<"c0", "c0">>), Sub(ChunkList(<<"c0">>))),
                   ChunkBody("c0")}}
    \cup {[status |-> st, remaining |-> "", reset |-> "", body |-> b] :
            st \in {401, 404}, b \in {Plain("y"), ChunkBody("c1")}}

\* Get over these hosts
NextStatus ==
    \/ \E authData \in WaitCreds : auth(authData, "", WaitTokenAnswers)
    \/ \E c \in Procs : \E uri \in Uris : Get(c, uri)
    \/ \E c \in Procs : Return(c)
    \/ \E c \in Procs : proactiveCheck(c)
    \/ \E c \in Procs : httpClientGet(c, StatusAnswers)
    \/ \E c \in Procs : handleStatus(c)
    \/ \E c \in Procs : getResume(c)
    \/ \E c \in Procs : rangeRaw(c)

SpecStatus == Init /\ [][NextStatus]_vars

\* a network that fails in every way Get knows: no answer, a 404, a 429 (which
\* the default policy turns into RateLimitExceededError), text with the chunk
\* marker that is no JSON, and a chunk file that is no JSON array
FailingAnswers ==
    {NoResp}
    \cup Responses({StatusOK, 404, StatusTooManyRequests}, {""}, {""},
                   {Plain("x"), MarkerText, Object(ChunkList(<<"bad">>), NoSub),
                    Object(ChunkList(<<"c0">>), NoSub), ChunkBody("bad"), ChunkBody("c0")})

\* The cache over a network that fails: one caller's GetWithCache calls
NextFail ==
    \/ EnableCache
    \/ \E authData \in FetchCreds : auth(authData, "", FetchTokenAnswers)
    \/ Tick
    \/ \E c \in Procs : \E uri \in Uris \cup {BadUri}, ttl \in {MaxTtl} :
           GetWithCache(c, uri, ttl)
    \/ \E c \in Procs : Return(c)
    \/ \E c \in Procs : proactiveCheck(c)
    \/ \E c \in Procs : httpClientGet(c, FailingAnswers)
    \/ \E c \in Procs : handleStatus(c)
    \/ \E c \in Procs : getResume(c)
    \/ \E c \in Procs : rangeRaw(c)
    \/ \E c \in Procs : setCachedData(c)

SpecFail == Init /\ [][NextFail]_vars

\* Get's handling of the body: one caller's Get calls over a network that
\* sends no rate limit headers, no 429 and no 5xx, the grant always given
NextGet ==
    \/ \E authData \in WaitCreds : auth(authData, "", WaitTokenAnswers)
    \/ \E c \in Procs : Get(c, "/a")
    \/ \E c \in Procs : Return(c)
    \/ \E c \in Procs : proactiveCheck(c)
    \/ \E c \in Procs : httpClientGet(c, ChunkAnswers)
    \/ \E c \in Procs : handleStatus(c)
    \/ \E c \in Procs : getResume(c)
    \/ \E c \in Procs : rangeRaw(c)

SpecGet == Init /\ [][NextGet]_vars

\* what a CredsProvider can give: a username in either case, a password that is
\* plain text or has the shape of a digest, a client ID and a client secret
\* (or no client ID)
Provided ==
    {[username |-> u, password |-> p, clientID |-> ic[1], clientSecret |-> ic[2]] :
        u \in {"a", "A"}, p \in {"aa", "#aa"},
        ic \in {<<"aa", "a">>, <<"a", "aa">>, <<"", "a">>}}

\* the records handed to writeCreds
AuthRecords == {authDataOf(given) : given \in Provided} \cup {ZeroAuthData}

\* the key file names handed in: two key files, one with the wrong mode, none
KeyFilenames == {"k1", "k2", "k644", ""}

\* the token endpoint refuses the grant or gives it
CredsTokenAnswers ==
    {a \in TokenAnswers : a.status = 401
                          \/ (a.decodable /\ a.access = "t1" /\ a.refresh = "r1")}

\* The credentials: clients that authenticate with provided credentials or with
\* those of the credentials file, and calls of writeCreds and readCreds
NextCreds ==
    \/ Open
    \/ \E k \in KeyFilenames, authData \in AuthRecords : WriteCreds(k, authData)
    \/ \E k \in KeyFilenames : ReadCreds(k)
    \/ \E k \in KeyFilenames : AuthWithCredsFromFile(k, CredsTokenAnswers)
    \/ \E given \in Provided : AuthWithProvideCreds(given, CredsTokenAnswers)
    \/ \E k \in KeyFilenames, given \in Provided :
           AuthAndSaveProvidedCredsToFile(k, given, CredsTokenAnswers)

SpecCreds == Init /\ [][NextCreds]_vars

\* the token endpoint refuses, or gives a grant that has run out by the next
\* tick of the clock or one that lasts, with or without a refresh token
SessionTokenAnswers ==
    {a \in TokenFailures : a.status = 401}
    \cup {[status |-> StatusOK, decodable |-> TRUE, access |-> g[1], refresh |-> g[2],
           expires |-> g[3]] :
            g \in {<<"t1", "r1", 0>>, <<"t1", "", 0>>, <<"t2", "r2", 60>>, <<"t2", "", 60>>}}

\* the credentials files in use: complete, without a password, and of the
\* legacy format (no client ID, no client secret)
SessionRecords ==
    {[Username |-> "a", MaskedPassword |-> mp, ClientID |-> ic[1], ClientSecret |-> ic[2]] :
        mp \in {"", "#aa"}, ic \in {<<"aa", "a">>, <<"", "">>}}

\* what a CredsProvider gives: complete credentials, or some without a client
\* ID or without a client secret
SessionProvided ==
    {[username |-> "a", password |-> "aa", clientID |-> ic[1], clientSecret |-> ic[2]] :
        ic \in {<<"aa", "a">>, <<"", "a">>, <<"aa", "">>}}

\* The session across clients: a token file is configured or not, clients
\* authenticate from the credentials file or with provided credentials, time
\* passes, and new clients are opened over the same files
NextSession ==
    \/ Open
    \/ \E path \in {"", "tok"} : SetAuthTokenFile(path)
    \/ Tick
    \/ \E authData \in SessionRecords : WriteCreds("k1", authData)
    \/ \E k \in {"k1", "k2", ""} : AuthWithCredsFromFile(k, SessionTokenAnswers)
    \/ \E given \in SessionProvided : AuthWithProvideCreds(given, SessionTokenAnswers)

SpecSession == Init /\ [][NextSession]_vars

\* The transport under either rate limit policy, with a caller that may cancel
\* its context at any time
NextCancel ==
    \/ NextLive
    \/ Cancel

SpecCancel == Init /\ [][NextCancel]_vars

\* the token endpoint at its worst: no answer, a client error, a rate limit, a
\* server error, or a grant that can or cannot be decoded
GrantAnswers ==
    TokenFailures \cup {a \in TokenGrants : a.access \in {"", "t1"} /\ a.refresh = "r1"}

\* The password limited grant against a token endpoint that fails: clients
\* without a token file authenticate, step by step, and are opened again
NextGrant ==
    \/ Open
    \/ \E c \in Procs : \E authData \in Creds : authBegin(c, authData)
    \/ \E c \in Procs : authPostForm(c, GrantAnswers)
    \/ \E c \in Procs : authSleep(c)
    \/ \E c \in Procs : authEnd(c)
    \/ \E c \in Procs : authStore(c)
    \/ \E c \in Procs : Return(c)

SpecGrant == Init /\ [][NextGrant]_vars

\* a token endpoint whose grants run out by the next tick of the clock: it
\* fails (no answer, 401, 500, a 200 that cannot be decoded), or gives an access
\* token with a new refresh token (t1 with r1, t2 with r2) or without one (t3)
RefreshAnswers ==
    {a \in TokenFailures : a.status \in {0, 401, 500}}
    \cup {a \in TokenGrants : ~a.decodable}
    \cup {[status |-> StatusOK, decodable |-> TRUE, access |-> g[1], refresh |-> g[2],
           expires |-> 0] : g \in {<<"t1", "r1">>, <<"t2", "r2">>, <<"t3", "">>}}

\* Refreshes in a row: clients with a token file are opened one after the other
\* over the same token file, each authenticating when the token of the one
\* before has run out
NextRefresh ==
    \/ Open
    \/ \E path \in {"", "tok"} : SetAuthTokenFile(path)
    \/ Tick
    \/ \E authData \in FetchCreds : auth(authData, "k1", RefreshAnswers)

SpecRefresh == Init /\ [][NextRefresh]_vars

\* a token endpoint that grants every time, a short-lived token or a
\* long-lived one
SharedGrants ==
    {[status |-> StatusOK, decodable |-> TRUE, access |-> g[1], refresh |-> g[2],
      expires |-> g[3]] : g \in {<<"t1", "r1", 60>>, <<"t2", "r2", 120>>}}

\* The session shared: two goroutines authenticate the client and make
\* requests, each at its own pace
NextTorn ==
    \/ \E c \in Procs : Spawn(c)
    \/ \E c \in Procs : \E authData \in WaitCreds : authBegin(c, authData)
    \/ \E c \in Procs : authPostForm(c, SharedGrants)
    \/ \E c \in Procs : authEnd(c)
    \/ \E c \in Procs : authStore(c)
    \/ \E c \in Procs : readSession(c)
    \/ \E c \in Procs : Return(c)

SpecTorn == Init /\ [][NextTorn]_vars

\* what the cache is given to hold
MapData == {Plain("x"), Plain("y")}

\* The cache as a map: keys are set, read and deleted in any order while time
\* passes
NextMap ==
    \/ EnableCache
    \/ Tick
    \/ \E c \in Procs : \E key \in Uris, data \in MapData, ttl \in {MaxTtl, MaxTime + 1} :
          cacheSet(c, key, data, ttl)
    \/ \E c \in Procs : \E key \in Uris : cacheGet(c, key)
    \/ \E c \in Procs : \E key \in Uris : cacheDelete(c, key)
    \/ \E c \in Procs : Return(c)

SpecMap == Init /\ [][NextMap]_vars

\* the answer of a server that always has the data
DataAnswers == Responses({StatusOK}, {""}, {""}, {Plain("x")})

\* a step of a Close that is under way
CloseStep(c) ==
    \/ cacheCloseRunGC(c)
    \/ cacheCloseMerge(c)
    \/ cacheCloseDeferred(c)

\* The life of a cache: clients are opened over the same cache directory, fill
\* the cache with entries that expire, and are closed with Close or CloseFast
\* while time passes
NextClose ==
    \/ Open
    \/ EnableCache
    \/ \E authData \in WaitCreds : auth(authData, "", WaitTokenAnswers)
    \/ Tick
    \/ \E c \in Procs : \E uri \in Uris, ttl \in 0 .. MaxTtl : GetWithCache(c, uri, ttl)
    \/ \E c \in Procs : Return(c)
    \/ \E c \in Procs : proactiveCheck(c)
    \/ \E c \in Procs : httpClientGet(c, DataAnswers)
    \/ \E c \in Procs : handleStatus(c)
    \/ \E c \in Procs : getResume(c)
    \/ \E c \in Procs : setCachedData(c)
    \/ \E c \in Procs : Close(c)
    \/ \E c \in Procs : CloseFast(c)
    \/ \E c \in Procs : CloseStep(c)

SpecClose ==
    Init /\ [][NextClose]_vars /\ \A c \in Procs : WF_vars(CloseStep(c))

\* the answers of a server that counts the budget down: a 200 or a 429, with or
\* without a remaining count of 1 or 0 and a reset time
SharedAnswers ==
    Responses({StatusOK, StatusTooManyRequests}, {"", "0", "1"}, {"", "6"}, {Plain("x")})

\* The transport shared by goroutines that run concurrently, under either rate
\* limit policy: every statement of a goroutine inside retryingGet and
\* updateRateLimit is a step, and the steps of the goroutines interleave
NextShared ==
    \/ \E c \in Procs : Spawn(c)
    \/ \E h \in {RateLimitError, RateLimitWait} : SetRateLimitHandler(h)
    \/ \E authData \in WaitCreds : auth(authData, "", WaitTokenAnswers)
    \/ \E c \in Procs : Get(c, "/a")
    \/ \E c \in Procs : Return(c)
    \/ \E c \in Procs : rateLimitMuLock(c)
    \/ \E c \in Procs : readRateLimit(c)
    \/ \E c \in Procs : unlockAfterCheck(c)
    \/ \E c \in Procs : proactiveWaitOver(c)
    \/ \E c \in Procs : sendRequest(c, SharedAnswers)
    \/ \E c \in Procs : storeRemaining(c)
    \/ \E c \in Procs : storeReset(c)
    \/ \E c \in Procs : unlockAfterUpdate(c)
    \/ \E c \in Procs : branchOnStatus(c)
    \/ \E c \in Procs : readReset(c)
    \/ \E c \in Procs : unlockAfterReset(c)
    \/ \E c \in Procs : sleepOver(c)
    \/ \E c \in Procs : getResume(c)

SpecShared == Init /\ [][NextShared]_vars

\* the answers of a server that fails or answers, with or without the headers of
\* a limit that is used up until well after the first backoff
RejectAnswers ==
    {NoResp} \cup Responses({StatusOK, 500}, {"", "0"}, {"", "9"}, {Plain("x")})

\* The transport under the default policy (RateLimitError): one caller's Get
\* calls, with the retries that follow a 5xx
NextReject ==
    \/ \E n \in 1 .. MaxRetries : SetRetries(n)
    \/ \E authData \in WaitCreds : auth(authData, "", WaitTokenAnswers)
    \/ Tick
    \/ \E c \in Procs : Get(c, "/a")
    \/ \E c \in Procs : Return(c)
    \/ \E c \in Procs : proactiveCheck(c)
    \/ \E c \in Procs : httpClientGet(c, RejectAnswers)
    \/ \E c \in Procs : handleStatus(c)
    \/ \E c \in Procs : sleepOver(c)
    \/ \E c \in Procs : getResume(c)

SpecReject == Init /\ [][NextReject]_vars

----------------------------------------------------------------------------
(* Properties of the cache (SpecCache) *)

\* the caller's call has returned
Returned(c) == frame[c].pc = "done"

\* c's call is a GetWithCache(uri, ttl) made right after a GetWithCache(uri, ttl)
\* that missed, fetched and wrote the cache
Repeats(c) ==
    /\ frame[c].op = "GetWithCache"
    /\ frame[c].after # NoRecent
    /\ frame[c].after.uri = frame[c].uri
    /\ frame[c].after.ttl = frame[c].ttl

\* C1 as stated: for any uri and ttl, the second of two GetWithCache(uri, ttl)
\* calls in immediate succession (the first a miss whose fetch and cache write
\* succeeded) that reads the cache without a store error makes no fetch and
\* returns the bytes the first call returned
C1_AnyTtlOneFetch ==
    \A c \in Procs :
        (Returned(c) /\ Repeats(c) /\ frame[c].err # "cache get error")
        => (~frame[c].got /\ frame[c].err = NoErr /\ frame[c].data = frame[c].after.data)

\* C1 amended: the same, for a ttl greater than zero (a ttl that has not run
\* out when the second call looks the uri up)
C1_LiveTtlOneFetch ==
    \A c \in Procs :
        (Returned(c) /\ Repeats(c) /\ frame[c].ttl > 0
         /\ frame[c].err # "cache get error")
        => (~frame[c].got /\ frame[c].err = NoErr /\ frame[c].data = frame[c].after.data)

\* a second GetWithCache("/a", 1) has returned the first call's bytes from the cache
C1_Witness ==
    \E c \in Procs :
        /\ Returned(c) /\ Repeats(c) /\ frame[c].uri = "/a" /\ frame[c].ttl = 1
        /\ ~frame[c].got /\ frame[c].data = frame[c].after.data
        /\ frame[c].data = Plain("x")

\* C2: when GetWithCache missed, fetched and could not write the cache, it
\* returns the fetched bytes (never nil) together with a non-nil store error
C2_FailedWriteKeepsData ==
    [][\A c \in Procs :
          (frame[c].pc = "gwc_store" /\ frame'[c].pc = "done" /\ ~frame'[c].stored)
          => /\ frame'[c].data = frame[c].data
             /\ frame'[c].data # NoData
             /\ frame'[c].err = "cache put error"
             /\ cask' = cask]_vars

\* a GetWithCache has returned fetched bytes and the store's error
C2_Witness ==
    \E c \in Procs :
        /\ Returned(c) /\ frame[c].op = "GetWithCache" /\ frame[c].got
        /\ ~frame[c].stored /\ frame[c].err = "cache put error"
        /\ frame[c].data = Plain("y")

----------------------------------------------------------------------------
(* Properties of the transport (Spec, SpecLive) *)

RateLimitExceeded == "rate limit exceeded"

\* c's call got a 429 from the server
Got429(c) == frame[c].left429 < Max429

\* c's retryingGet has a response in hand and is about to look at its status
Answered(c) == frame[c].pc = "rg_status"

\* C3: under RateLimitWait a call never ends in a RateLimitExceededError; a
\* call answered with a 429 goes on (the server gives finitely many 429s) and
\* eventually returns; and when, after 429s, the answer to the request is a
\* 200 with data, that data is what Get returns
C3_WaitRidesOut429s ==
    /\ [](rateLimitHandler = RateLimitWait
          => \A c \in Procs : /\ frame[c].rerr # RateLimitExceeded
                              /\ frame[c].err # RateLimitExceeded)
    /\ [][\A c \in Procs :
            (rateLimitHandler = RateLimitWait /\ Got429(c) /\ frame[c].stage = "api"
             /\ frame[c].pc = "rg_ret" /\ frame[c].resp.status = StatusOK
             /\ frame[c].resp.body.kind = "data" /\ frame'[c] # frame[c])
            => (frame'[c].pc = "done" /\ frame'[c].err = NoErr
                /\ frame'[c].data = frame[c].resp.body)]_vars
    /\ \A c \in Procs :
         (rateLimitHandler = RateLimitWait /\ Answered(c)
          /\ frame[c].resp.status = StatusTooManyRequests)
         ~> Returned(c)

\* under RateLimitWait, retryingGet has returned a 200 after two 429s
C3_Witness ==
    \E c \in Procs :
        /\ rateLimitHandler = RateLimitWait /\ frame[c].pc = "rg_ret"
        /\ frame[c].left429 = Max429 - 2 /\ frame[c].sent = 3
        /\ frame[c].resp.status = StatusOK /\ frame[c].rerr = NoErr

\* C4: under RateLimitError an attempt answered with a 429 makes retryingGet
\* return a RateLimitExceededError at once, with no further request, and the
\* error's ResetTime is not the zero time
C4_RejectCarriesResetTime ==
    [][\A c \in Procs :
          (Answered(c) /\ frame[c].resp.status = StatusTooManyRequests
           /\ rateLimitHandler = RateLimitError /\ frame'[c] # frame[c])
          => /\ frame'[c].pc = "rg_ret"
             /\ frame'[c].rerr = RateLimitExceeded
             /\ frame'[c].sent = frame[c].sent
             /\ frame'[c].rreset # ZeroTime]_vars

\* c's retryingGet has sent nothing yet, after a proactive wait
WaitedProactively(c) ==
    /\ frame[c].pc \in {"rg_loop", "rg_ret"}
    /\ frame[c].sent = 0
    /\ frame[c].nap > 0

\* C5: with remaining <= 0 and the reset time in the future, a call under
\* RateLimitError returns RateLimitExceededError with exactly the stored reset
\* time and sends nothing; under RateLimitWait the call has waited until the
\* reset time and does not return before it has sent the request
C5_ProactiveLimit ==
    \A c \in Procs :
        /\ (frame[c].pc = "rg_ret" /\ frame[c].sent = 0
            /\ frame[c].rerr = RateLimitExceeded)
           => (frame[c].rreset = rateLimitReset /\ frame[c].rreset # ZeroTime
               /\ rateLimitHandler = RateLimitError)
        /\ WaitedProactively(c)
           => (now >= rateLimitReset /\ frame[c].pc = "rg_loop")

\* C6: with SetRetries(0), a retryingGet that was not refused by the proactive
\* rate limit check returns after exactly one request, with that attempt's
\* response or error
C6_ZeroBudgetOneAttempt ==
    \A c \in Procs :
        (frame[c].pc = "rg_ret" /\ getRetries = 0 /\ frame[c].rerr # RateLimitExceeded)
        => (frame[c].sent = 1 /\ (frame[c].resp # NoResp \/ frame[c].rerr # NoErr))

\* c's retryingGet got nothing but 5xx answers so far and sleeps after the last
Only5xxSoFar(c) ==
    /\ frame[c].pc = "rg_sleep"
    /\ ~Got429(c)
    /\ frame[c].resp.status >= ServerErrorFloor

C8_NetworkErrorReturnsAtOnce ==
    [][\A c \in Procs :
          /\ (frame[c].pc = "rg_loop" /\ mayAttempt(frame[c].retries)
              /\ frame'[c] # frame[c] /\ frame'[c].pc # "rg_status")
             => /\ frame'[c].pc = "rg_ret"
                /\ frame'[c].rerr = "network error"
                /\ frame'[c].retries = frame[c].retries
                /\ frame'[c].nap = 0
                /\ now' = now
                /\ rateLimitRemaining' = rateLimitRemaining
                /\ rateLimitReset' = rateLimitReset
          /\ (frame[c].pc = "rg_ret" /\ frame[c].rerr = "network error"
              /\ frame'[c] # frame[c])
             => (frame'[c].pc = "done" /\ frame'[c].err = "network error"
                 /\ frame'[c].data = NoData)]_vars

\* the second attempt of a retryingGet has met a network error, budget left
C8_Witness ==
    \E c \in Procs :
        /\ frame[c].pc = "rg_ret" /\ frame[c].rerr = "network error"
        /\ frame[c].sent = 2 /\ frame[c].retries = DefaultRetries - 1

\* a status below 500 that is neither 401 nor 429
PlainStatus(st) ==
    st < ServerErrorFloor /\ st # 401 /\ st # StatusTooManyRequests

\* C9: a response with a status below 500, not 401 and not 429, ends the loop
\* at once: retryingGet returns that very response, with no other request, no
\* sleep and the budget as it was
C9_ClientStatusEndsLoop ==
    [][\A c \in Procs :
          (Answered(c) /\ PlainStatus(frame[c].resp.status) /\ frame'[c] # frame[c])
          => /\ frame'[c].pc = "rg_ret"
             /\ frame'[c].resp = frame[c].resp
             /\ frame'[c].rerr = NoErr
             /\ frame'[c].sent = frame[c].sent
             /\ frame'[c].retries = frame[c].retries
             /\ frame'[c].nap = 0
             /\ now' = now]_vars

\* retryingGet has returned a 404 after one request, the budget untouched
C9_Witness ==
    \E c \in Procs :
        /\ frame[c].pc = "rg_ret" /\ frame[c].resp.status = 404
        /\ frame[c].sent = 1 /\ frame[c].retries = getRetries
        /\ frame[c].rerr = NoErr

\* C10: a 401 on the first attempt, the session holding a refresh token, comes
\* out of retryingGet only after a token refresh was asked of the token
\* endpoint (and failed); otherwise the request is sent again
C10_Refreshes401 ==
    \A c \in Procs :
        (frame[c].pc = "rg_ret" /\ frame[c].sent = 1 /\ frame[c].resp.status = 401
         /\ session.RefreshToken # "")
        => lastGrant = "refresh_token"

----------------------------------------------------------------------------
(* Properties of Get's handling of the body (SpecGet) *)

\* the chunk arrays of the named files, one after the other, and the sum of
\* their lengths
RECURSIVE Merged(_)
Merged(names) ==
    IF names = <<>> THEN <<>> ELSE ChunkElems(Head(names)) \o Merged(Tail(names))
RECURSIVE SumLen(_)
SumLen(names) ==
    IF names = <<>> THEN 0 ELSE Len(ChunkElems(Head(names))) + SumLen(Tail(names))

\* c's Get has returned a JSON object without an error
ReturnedObject(c) ==
    Returned(c) /\ frame[c].err = NoErr /\ frame[c].data.kind = "object"

\* a block with chunk file names whose _chunk_data was stored holds the chunks'
\* elements in the order of the names
BlockMerged(ci, cd) ==
    (ci.shape = "list" /\ cd.set)
        => cd.elems = Merged(ci.names) /\ Len(cd.elems) = SumLen(ci.names)

\* C11: in a document that Get returns, the array under _chunk_data of an object
\* with a chunk_info block of N file names has as many elements as the N chunk
\* arrays together, in the order of chunk_file_names; the document's own block
\* is always resolved
C11_ChunksMergedInOrder ==
    \A c \in Procs :
        ReturnedObject(c) =>
            LET d == frame[c].data IN
            /\ d.chunk_info.shape = "list" => d.chunk_data.set
            /\ BlockMerged(d.chunk_info, d.chunk_data)
            /\ BlockMerged(d.data.chunk_info, d.data.chunk_data)

\* a document with two chunk files of its own and one in the object under
\* "data" was returned, all merged
C11_Witness ==
    \E c \in Procs :
        /\ ReturnedObject(c)
        /\ frame[c].data.chunk_info.names = <<"c0", "c1">>
        /\ frame[c].data.chunk_data.elems = <<"e1", "e2", "e3">>
        /\ frame[c].data.data.chunk_info.names = <<"c1">>
        /\ frame[c].data.data.chunk_data.elems = <<"e3">>

\* a chunk_info block without chunks: a null value or no file names
ZeroChunks(ci) == ci.has /\ (ci.shape = "null" \/ (ci.shape = "list" /\ ci.names = <<>>))

\* the key _chunk_data is present and holds no element
EmptyMerge(cd) == cd.set /\ Len(cd.elems) = 0

Resumes(c, stages) ==
    /\ frame[c].pc = "rg_ret" /\ frame[c].stage \in stages
    /\ frame[c].rerr = NoErr /\ frame[c].resp # NoResp
    /\ frame'[c] # frame[c]

\* c's Get goes into retryingGet for url
Fetches(g, stage, url) == g.pc = "rg_check" /\ g.stage = stage /\ g.url = url

\* c's Get returns data without an error
Yields(g, data) == g.pc = "done" /\ g.err = NoErr /\ g.data = data

\* the first body is a 200 with a link: the link is fetched, whatever the
\* data_url; with no link but a data_url: the data_url is fetched
FollowsLinkFirst(c) ==
    (Resumes(c, {"api"}) /\ frame[c].resp.status = StatusOK) =>
        LET body == frame[c].resp.body IN
        /\ linkOf(body) # "" => Fetches(frame'[c], "link", linkOf(body))
        /\ (linkOf(body) = "" /\ dataUrlOf(body) # "")
              => Fetches(frame'[c], "data_url", dataUrlOf(body))

\* C13 as it is stated: a non-empty link in the first 200 body is followed (in
\* preference to a data_url, which is followed only without a link), and the
\* body of the followed URL is returned as it is, nothing further fetched
C13_FollowedBodyVerbatim ==
    [][\A c \in Procs :
        /\ FollowsLinkFirst(c)
        /\ Resumes(c, {"link", "data_url"}) => Yields(frame'[c], frame[c].resp.body)]_vars

\* C13, amended: the link is followed in preference to the data_url; the body of
\* the followed URL is never examined for a link or data_url; it is returned as
\* it is unless it holds the chunk marker, and with the marker it goes through
\* chunk resolution like a first body (an error if it is no JSON object)
C13_FollowedBodyVerbatimUnlessChunked ==
    [][\A c \in Procs :
        /\ FollowsLinkFirst(c)
        /\ Resumes(c, {"link", "data_url"}) =>
              LET body == frame[c].resp.body
                  g == frame'[c]
              IN
              /\ ~hasMarker(body) => Yields(g, body)
              /\ hasMarker(body) =>
                    IF body.kind = "object"
                    THEN g.pc = "rc_range" /\ g.doc = body
                    ELSE g.pc = "done" /\ g.err # NoErr
              /\ g.stage \notin {"link", "data_url"}]_vars

\* the link of a body with a link and a data_url was fetched, and the body
\* found there is itself a link
C13_Witness ==
    \E c \in Procs :
        /\ frame[c].pc = "rg_ret" /\ frame[c].stage = "link"
        /\ frame[c].url = "s3://l" /\ frame[c].sent = 1
        /\ frame[c].resp # NoResp /\ frame[c].resp.body = Link("s3://l")

\* C14: a first 200 body with no non-empty link, no non-empty data_url and no
\* chunk marker is returned as it is, without an error and without a further
\* fetch
C14_PlainBodyReturnedAsIs ==
    [][\A c \in Procs :
        (Resumes(c, {"api"}) /\ frame[c].resp.status = StatusOK) =>
            LET body == frame[c].resp.body IN
            (linkOf(body) = "" /\ dataUrlOf(body) = "" /\ ~hasMarker(body))
                => Yields(frame'[c], body)]_vars

\* a top-level array was returned as it came
C14_Witness ==
    \E c \in Procs :
        /\ Returned(c) /\ frame[c].err = NoErr
        /\ frame[c].data = Array(<<"e1", "e2">>)

----------------------------------------------------------------------------
(* Properties of the credentials (SpecCreds) *)

\* the credentials file was read, with the key file it was last written with
ReadBack ==
    /\ creds.wrote # NoWrite /\ creds.read # NoRead
    /\ creds.read.key = creds.wrote.key

PostedProvided == creds.given # NoGiven /\ posted # NoPost

\* the latest auth call masked both the provided password (with the username)
\* and the client secret (with the client ID)
MaskedTwice == PostedProvided /\ ~isMasked(creds.given.password)

C17_PostedPasswordIsDigest ==
    PostedProvided =>
        /\ ~isMasked(creds.given.password)
        /\ posted.password = digest(creds.given.password \o ToLower(creds.given.username))
        /\ posted.password # creds.given.password

----------------------------------------------------------------------------
(* Properties of the session across clients (SpecSession) *)

\* this step is a call of auth that did something
AuthActs ==
    /\ ~isAuthed
    /\ <<isAuthed, session, posted, lastGrant, tokenFile>>'
         # <<isAuthed, session, posted, lastGrant, tokenFile>>

\* this step is AuthWithCredsFromFile getting as far as auth, which acts
AuthFromFile ==
    /\ AuthActs
    /\ creds'.given = NoGiven /\ creds'.read # NoRead /\ creds'.read.err = NoErr

\* this step is AuthWithProvideCreds, and auth acts
AuthProvided == AuthActs /\ creds'.given # NoGiven

\* a token file is configured and on disk, and opens with the key of keyFilename
TokenOpens(keyFilename) ==
    /\ authTokenFile # "" /\ keyFilename # "" /\ getKey(keyFilename).err = NoErr
    /\ tokenFile.exists /\ tokenFile.key = getKey(keyFilename).key

\* the token of the token file has run out
TokenExpired == tokenFile.token.TokenExpiry < now

\* the token endpoint gave what was asked of it
Granted(ans) == ans.status = StatusOK /\ ans.decodable

\* C18: with a token file and a key configured, the token of the file opening
\* and not yet expired, auth takes over its access token, refresh token, expiry
\* and client credentials, sets isAuthed and POSTs nothing to the token endpoint
C18_UnexpiredTokenAdopted ==
    [][(AuthFromFile /\ TokenOpens(creds'.read.key) /\ ~TokenExpired) =>
          /\ isAuthed'
          /\ session' = tokenFile.token
          /\ posted' = NoPost /\ lastGrant' = lastGrant
          /\ tokenFile' = tokenFile /\ now' = now]_vars

\* a new client was authenticated from the token file of an earlier one,
\* nothing POSTed
C18_Witness ==
    /\ isAuthed /\ posted = NoPost
    /\ authTokenFile = "tok" /\ tokenFile.exists /\ session = tokenFile.token
    /\ session.AccessToken = "t2" /\ ~(session.TokenExpiry < now)
    /\ creds.read.err = NoErr /\ creds.read.key = "k1"

Missing(authData) ==
    authData.MaskedPassword = "" \/ authData.ClientID = "" \/ authData.ClientSecret = ""

\* readCreds gives the legacy format error exactly for a decoded record without
\* client ID or client secret, and such a read changes nothing but the read
LegacyDetected ==
    /\ [](creds.read.err \in {NoErr, LegacyFormat} /\ creds.read # NoRead
            => (creds.read.err = LegacyFormat
                  <=> (creds.read.authData.ClientID = ""
                         \/ creds.read.authData.ClientSecret = "")))
    /\ [][(creds'.read.err = LegacyFormat /\ creds'.read # creds.read)
            => UNCHANGED <<isAuthed, session, posted, lastGrant, tokenFile>>]_vars

\* C20 as it is stated: readCreds detects the legacy format, and auth called with
\* an empty masked password, client ID or client secret leaves isAuthed false
\* and POSTs nothing
C20_MissingCredsAlwaysFatal ==
    /\ LegacyDetected
    /\ [][((AuthFromFile /\ Missing(creds'.read.authData))
            \/ (AuthProvided /\ Missing(authDataOf(creds'.given))))
           => ~isAuthed' /\ posted' = NoPost /\ lastGrant' = lastGrant]_vars

\* C20, amended: readCreds detects the legacy format; auth called with an empty
\* masked password, client ID or client secret never POSTs the password limited
\* grant, and leaves isAuthed false with nothing POSTed unless the token file
\* opens: then the token is taken over, or refreshed (a refresh grant is
\* POSTed), and auth fails only if the refresh does
C20_MissingCredsFatalWithoutToken ==
    /\ LegacyDetected
    /\ [][(AuthProvided /\ Missing(authDataOf(creds'.given)))
           => ~isAuthed' /\ posted' = NoPost /\ lastGrant' = lastGrant]_vars
    /\ [][(AuthFromFile /\ Missing(creds'.read.authData)) =>
            /\ posted'.password = "" /\ posted'.grant = NoAnswer
            /\ IF ~TokenOpens(creds'.read.key)
               THEN ~isAuthed' /\ posted' = NoPost /\ lastGrant' = lastGrant
               ELSE IF ~TokenExpired
               THEN isAuthed' /\ posted' = NoPost
               ELSE isAuthed' = (tokenFile.token.RefreshToken # ""
                                   /\ Granted(posted'.refresh))]_vars

\* credentials without a password were read from the file, the refresh of the
\* expired token was refused, and auth has failed without a password grant
C20_Witness ==
    /\ ~isAuthed
    /\ creds.read.err = NoErr /\ creds.read.authData.MaskedPassword = ""
    /\ posted.refresh_token = "r1" /\ posted.refresh.status = 401
    /\ posted.password = "" /\ posted.grant = NoAnswer

----------------------------------------------------------------------------
(* Properties of the cache lookup (SpecCache) *)

\* this step is c's GetWithCache asking the enabled cache for its uri
LooksUp(c) ==
    /\ frame[c].pc = "idle" /\ frame'[c].op = "GetWithCache" /\ cask.open

\* the three ways a lookup can come out: the entry's bytes are returned, nothing
\* fetched; the call goes on into Get (a miss); the store's error is returned,
\* nothing fetched
Hit(g, e) == g.pc = "done" /\ g.err = NoErr /\ g.data = e.data /\ ~g.got
Miss(g) == g.got /\ g.err # "cache get error"
StoreError(g) ==
    g.pc = "done" /\ g.err = "cache get error" /\ g.data = NoData /\ ~g.got

\* C23: a lookup comes out in exactly one of three ways: a hit, only on an entry
\* that is present and not expired, returning its bytes; a miss, only on an
\* entry that is absent or expired, after which GetWithCache goes into Get; a
\* store error, returned with no data and without a fetch
C23_LookupHasThreeOutcomes ==
    [][\A c \in Procs :
        LooksUp(c) =>
            LET e == cask.kv[hashKey(frame'[c].uri)]
                g == frame'[c]
            IN
            /\ Hit(g, e) \/ Miss(g) \/ StoreError(g)
            /\ ~(Hit(g, e) /\ Miss(g)) /\ ~(Miss(g) /\ StoreError(g))
            /\ ~(Hit(g, e) /\ StoreError(g))
            /\ Hit(g, e) => (e.present /\ e.expiry >= now /\ e.data # NoData)
            /\ Miss(g) => (~e.present \/ e.expiry <= now)]_vars

\* the store failed on the lookup of an entry that is present and not expired:
\* GetWithCache has returned the error and has not fetched
C23_Witness ==
    \E c \in Procs :
        /\ Returned(c) /\ frame[c].op = "GetWithCache" /\ ~frame[c].got
        /\ frame[c].err = "cache get error" /\ frame[c].data = NoData
        /\ cask.kv[hashKey(frame[c].uri)].present
        /\ cask.kv[hashKey(frame[c].uri)].expiry > now

----------------------------------------------------------------------------
(* Properties of the rate limit state (Spec) *)

\* this step is c's retryingGet getting a response, whose headers
\* updateRateLimit reads
Observes(c) == frame[c].pc = "rg_loop" /\ frame'[c].pc = "rg_status"

\* a header value that is sent and is a decimal number
Parsable(hdr) == hdr # "" /\ hdr \in DOMAIN Decimal

\* C24: the remaining count and the reset time change only in a step that gets
\* a response; that step sets the remaining count to the value of the
\* x-ratelimit-remaining header if it parses and leaves it otherwise, and sets
\* the reset time to the x-ratelimit-reset header's epoch second if it parses
\* and leaves it otherwise
C24_RateLimitFollowsHeaders ==
    [][/\ <<rateLimitRemaining, rateLimitReset>>' # <<rateLimitRemaining, rateLimitReset>>
          => \E c \in Procs : Observes(c)
       /\ \A c \in Procs :
            Observes(c) =>
                LET h == frame'[c].hdrs IN
                /\ rateLimitRemaining' = IF Parsable(h.remaining)
                                         THEN Decimal[h.remaining] ELSE rateLimitRemaining
                /\ rateLimitReset' = IF Parsable(h.reset)
                                     THEN UnixEpoch + Decimal[h.reset] ELSE rateLimitReset]_vars

\* a response with an unparsable remaining header and a reset header was
\* observed: the remaining count 1 of an earlier response is still stored, the
\* reset time is the new one
C24_Witness ==
    \E c \in Procs :
        /\ frame[c].pc = "rg_status"
        /\ frame[c].hdrs = [remaining |-> "abc", reset |-> "6"]
        /\ rateLimitRemaining = 1 /\ rateLimitReset = UnixEpoch + 6

\* C28: under RateLimitWait an attempt answered with a 429 leaves the retry
\* budget of the call as it was: the call sleeps and the loop comes round again
\* with the same number of retries, whatever the number of 429s before
C28_WaitKeepsRetryBudget ==
    [][\A c \in Procs :
        /\ (Answered(c) /\ frame[c].resp.status = StatusTooManyRequests
            /\ rateLimitHandler = RateLimitWait /\ frame'[c] # frame[c])
           => /\ frame'[c].pc = "rg_sleep"
              /\ frame'[c].retries = frame[c].retries
              /\ frame'[c].sent = frame[c].sent
        /\ (frame[c].pc = "rg_sleep" /\ frame'[c] # frame[c])
           => /\ frame'[c].pc = "rg_loop"
              /\ frame'[c].retries = frame[c].retries]_vars

\* with a budget of one retry, a call has sent three requests: two were answered
\* with a 429 and the budget is still whole
C28_Witness ==
    \E c \in Procs :
        /\ rateLimitHandler = RateLimitWait /\ getRetries = 1
        /\ frame[c].pc = "rg_status" /\ frame[c].sent = 3
        /\ frame[c].left429 = Max429 - 2
        /\ frame[c].retries = 1

----------------------------------------------------------------------------
(* Properties of the transport under RateLimitError (SpecReject) *)

\* this step is c's retryingGet sending a request
Sends(c) == frame[c].pc = "rg_loop" /\ frame'[c].sent = frame[c].sent + 1

\* C27: under RateLimitError no request is sent, be it the first attempt of a
\* retryingGet or a retry, while the stored remaining count is <= 0 and the
\* stored reset time is in the future
C27_NoSendWhileLimited ==
    [][\A c \in Procs :
        (Sends(c) /\ rateLimitHandler = RateLimitError)
        => ~(rateLimitRemaining <= 0 /\ now < rateLimitReset)]_vars

----------------------------------------------------------------------------
(* Properties of the session near the token's expiry (SpecSession) *)

\* C30: when the token of the token file opens, is not yet expired but expires
\* within one minute (60 s), and holds a refresh token, auth POSTs a refresh
\* token grant with it; auth succeeds whatever the answer, and with the refresh
\* refused the session holds the access token of the file
C30_NearExpiryRefreshed ==
    [][(AuthFromFile /\ TokenOpens(creds'.read.key) /\ ~TokenExpired
          /\ tokenFile.token.TokenExpiry - now <= 60
          /\ tokenFile.token.RefreshToken # "")
        => /\ posted'.refresh_token = tokenFile.token.RefreshToken
           /\ lastGrant' = "refresh_token"
           /\ isAuthed'
           /\ ~Granted(posted'.refresh)
                 => session'.AccessToken = tokenFile.token.AccessToken]_vars

----------------------------------------------------------------------------
(* Properties of cancellation (SpecCancel) *)

\* c's retryingGet is in time.Sleep, waiting for the rate limit to reset or
\* backing off after a 5xx, and the sleep is not over
Sleeps(c) == frame[c].pc \in {"rg_wait", "rg_sleep"} /\ frame[c].wake > now

\* C29: with the context canceled, a retryingGet that sleeps (rate limit wait or
\* 5xx backoff) goes on by returning an error at once: the rest of the sleep is
\* not waited for and no further request is sent
C29_CancelAbortsWaits ==
    [][\A c \in Procs :
        (ctx = "canceled" /\ Sleeps(c) /\ frame'[c] # frame[c])
        => /\ now' = now
           /\ frame'[c].pc = "rg_ret" /\ frame'[c].rerr # NoErr
           /\ frame'[c].sent = frame[c].sent]_vars

----------------------------------------------------------------------------
(* Properties of the shared rate limit state (SpecShared) *)

\* c is between a Lock and the Unlock that follows it
InSection(c) ==
    frame[c].pc \in {"rg_locked", "rg_unlock", "ur_remaining", "ur_reset",
                     "ur_unlock", "rs_locked", "rs_unlock"}

\* this step is c reading the remaining count or the reset time
Reads(c) ==
    \/ frame[c].pc = "rg_locked" /\ frame'[c].pc = "rg_unlock"
    \/ frame[c].pc = "rs_locked" /\ frame'[c].pc = "rs_unlock"

\* this step is c writing the remaining count or the reset time
Writes(c) ==
    /\ frame'[c] # frame[c]
    /\ <<rateLimitRemaining, rateLimitReset>>' # <<rateLimitRemaining, rateLimitReset>>

\* c is in time.Sleep, or about to send a request
SleepsOrSends(c) == frame[c].pc \in {"rg_wait", "rg_sleep", "rg_loop"}

\* C25: with goroutines interleaving at will, a goroutine reads or writes the
\* remaining count and the reset time only while it holds rateLimitMu; at most
\* one goroutine is between Lock and Unlock; none holds the mutex while it
\* sleeps or sends; and the pair a proactive check has read is the stored pair,
\* read while no update is half done
C25_RateLimitStateUnderLock ==
    /\ [](\A c \in Procs :
            /\ InSection(c) <=> rateLimitMu = c
            /\ \A d \in Procs \ {c} : ~(InSection(c) /\ InSection(d))
            /\ SleepsOrSends(c) => rateLimitMu # c
            /\ frame[c].pc = "rg_unlock"
                  => /\ frame[c].seen.remaining = rateLimitRemaining
                     /\ frame[c].seen.reset = rateLimitReset
                     /\ \A d \in Procs : frame[d].pc # "ur_reset")
    /\ [][\A c \in Procs :
            /\ (Reads(c) \/ Writes(c)) => rateLimitMu = c
            /\ Sends(c) => rateLimitMu # c]_vars

\* one goroutine sleeps until the rate limit resets while the other one, holding
\* the mutex, is half way through storing the headers of its response
C25_Witness ==
    /\ frame["c1"].pc = "rg_sleep" /\ frame["c1"].wake > now
    /\ frame["c2"].pc = "ur_reset" /\ rateLimitMu = "c2"
    /\ frame["c2"].hdrs = [remaining |-> "1", reset |-> "6"]

\* c's proactive check saw a remaining count of 1, let the call pass, and the
\* call has sent its first request
PassedOnLastUnit(c) ==
    /\ frame[c].seen.read /\ frame[c].seen.remaining = 1 /\ ~frame[c].seen.limited
    /\ frame[c].sent = 1

\* C26: with a stored remaining count of 1, two goroutines never both pass the
\* proactive check and both send a request
C26_LastUnitSentOnce ==
    \A c \in Procs : \A d \in Procs \ {c} :
        ~(rateLimitRemaining = 1 /\ PassedOnLastUnit(c) /\ PassedOnLastUnit(d)
          /\ frame[c].pc = "ur_lock" /\ frame[d].pc = "ur_lock")

----------------------------------------------------------------------------
(* Properties of Close and CloseFast (SpecClose) *)

\* a Close of an open store is under way in c's frame, and has returned
Closing(c) == frame[c].op = "Close" /\ frame[c].pc \in {"cl_gc", "cl_merge", "cl_close"}
Closed(c) == frame[c].op = "Close" /\ frame[c].pc = "done" /\ frame[c].close.gcs > 0

\* C21, where Close stands: the store is not closed before Close returns, and
\* once it has returned the store was closed exactly once, at most 3 merges
\* were attempted, and Close gave no error and did not crash the program
CloseClosesOnce ==
    \A c \in Procs :
        /\ Closing(c) => cask.closes = 0 /\ frame[c].close.merges <= 3
        /\ Closed(c) =>
              /\ cask.closes = 1
              /\ frame[c].close.merges \in 1 .. 3
              /\ frame[c].err = NoErr
              /\ ~crashed

\* C21, step by step: garbage collection runs before the first merge, and both
\* a further merge and a further garbage collection happen only after a merge
\* that reported an expired key
CloseRetriesOnExpiredOnly ==
    \A c \in Procs :
        LET old == frame[c].close
            new == frame'[c].close IN
        Closing(c) =>
           /\ new.merges > old.merges => old.gcs >= 1
           /\ new.merges > old.merges /\ old.merges >= 1 => old.err = "ErrKeyExpired"
           /\ new.gcs > old.gcs /\ old.gcs >= 1 => new.err = "ErrKeyExpired"
           /\ old.err \notin {NoErr, "ErrKeyExpired"} => new.merges = old.merges

\* C21: Close on a client with the cache enabled always returns and closes the
\* store exactly once: it runs garbage collection, then attempts Merge at most 3
\* times, running garbage collection again and retrying only when Merge reported
\* an expired key; no failure of either keeps the store open or fails Close
C21_CloseTerminatesAndCloses ==
    /\ []CloseClosesOnce
    /\ [][CloseRetriesOnExpiredOnly]_vars
    /\ \A c \in Procs : Closing(c) ~> Closed(c)

\* a Close returned after three merges that each reported an expired key, and
\* the store is closed
C21_Witness ==
    \E c \in Procs :
        /\ Closed(c)
        /\ frame[c].close.merges = 3
        /\ frame[c].close.err = "ErrKeyExpired"
        /\ cask.closes = 1

\* CloseFast has just returned in c's frame
FastClosed(c) == frame[c].op = "CloseFast" /\ frame[c].pc = "done"

\* C22, of CloseFast: the step closes the store and leaves every entry and
\* every record of the data files as they were
CloseFastLeavesFiles ==
    \A c \in Procs :
        FastClosed(c)' /\ ~FastClosed(c) =>
           /\ cask'.kv = cask.kv
           /\ cask'.records = cask.records
           /\ dataFiles(cask'.records) = dataFiles(cask.records)
           /\ cask'.closes = cask.closes + 1

\* C22, of Close as first stated: a Close of a store with stale records leaves
\* fewer data files than it found
CloseShrinksDataFiles ==
    \A c \in Procs :
        Closed(c) /\ frame[c].close.stale > 0 =>
            dataFiles(cask.records) < dataFiles(frame[c].close.records)

CloseCompacts ==
    \A c \in Procs :
        Closed(c) =>
           /\ dataFiles(cask.records) <= dataFiles(frame[c].close.records)
           /\ frame[c].close.err = NoErr =>
                 /\ staleRecords(cask) = 0
                 /\ /\ dataFiles(frame[c].close.records) > 1
                    /\ frame[c].close.records - cask.records >= RecordsPerFile
                    => dataFiles(cask.records) < dataFiles(frame[c].close.records)
           /\ frame[c].close.err # NoErr => cask.records = frame[c].close.records

CloseShrank ==
    \E c \in Procs :
        /\ Closed(c)
        /\ frame[c].close.err = NoErr
        /\ dataFiles(frame[c].close.records) = 2
        /\ dataFiles(cask.records) = 1

----------------------------------------------------------------------------
(* Properties of the password limited grant (SpecGrant) *)

\* a status of the token endpoint that the claim has retried: no answer at all
\* (0), a 5xx or a 429
RetriedStatus(st) == st = 0 \/ st >= 500 \/ st = 429

\* a 4xx other than 429
ClientError(st) == st >= 400 /\ st < 500 /\ st # 429

\* C31, in every state of a grant: at most 5 POSTs were made; every POST but
\* the last was answered with a failure that is retried; between two POSTs
\* lies one backoff, each strictly longer than the one before
GrantRetriesOnFailureOnly ==
    \A c \in Procs :
        LET g == frame[c].grant IN
        frame[c].op = "auth" =>
           /\ Len(g.tries) <= 5
           /\ \A j \in 1 .. Len(g.tries) - 1 : RetriedStatus(g.tries[j])
           /\ frame[c].pc = "au_loop" => Len(g.naps) = Len(g.tries)
           /\ \A j \in 1 .. Len(g.naps) - 1 : g.naps[j] < g.naps[j + 1]
           /\ \A j \in 1 .. Len(g.naps) : g.naps[j] > 0

\* C31, when auth has returned: a last answer that is a 4xx other than 429 gave
\* an authentication error and left isAuthed false; if it was the first answer,
\* exactly one request was made
GrantEndsOnClientError ==
    \A c \in Procs :
        LET g == frame[c].grant
            n == Len(g.tries) IN
        (frame[c].op = "auth" /\ frame[c].pc = "done" /\ n > 0) =>
           /\ ClientError(g.tries[n]) =>
                 /\ frame[c].err = "unexpected auth failure"
                 /\ ~isAuthed
           /\ ~RetriedStatus(g.tries[n]) \/ n = 5

\* C31, of the steps: once a 4xx other than 429 has been answered no further
\* POST is made and nothing more is slept
GrantStopsAtClientError ==
    \A c \in Procs :
        LET g == frame[c].grant
            n == Len(g.tries) IN
        (frame[c].op = "auth" /\ n > 0 /\ ClientError(g.tries[n])) =>
            /\ frame'[c].op = "auth" => frame'[c].grant.tries = g.tries
            /\ now' = now

\* C31: the password limited grant is POSTed again only after a network error,
\* a 5xx or a 429, each time after a strictly longer backoff, and at most 5
\* times in all; a 4xx other than 429 ends it at once with an authentication
\* error and isAuthed false
C31_GrantRetriedOnFailureOnly ==
    /\ []GrantRetriesOnFailureOnly
    /\ []GrantEndsOnClientError
    /\ [][GrantStopsAtClientError]_vars

\* a grant was given up at the third POST, answered 401 after a 500 and a 429,
\* with backoffs of 10 and 15 seconds between the POSTs
C31_Witness ==
    \E c \in Procs :
        /\ frame[c].op = "auth" /\ frame[c].pc = "done"
        /\ frame[c].grant.tries = <<500, 429, 401>>
        /\ frame[c].grant.naps = <<10, 15>>
        /\ frame[c].err # NoErr
        /\ ~isAuthed

----------------------------------------------------------------------------
(* Properties of refreshToken (SpecRefresh) *)

\* the client is not authenticated and the token of its token file has run
\* out: auth will call refreshToken with the token's fields in the session
RefreshDue ==
    /\ ~isAuthed /\ authTokenFile = "tok" /\ tokenFile.exists
    /\ tokenFile.token.TokenExpiry < now

\* C32: after a refresh that was granted the session holds the access token of
\* the response, the expiry the response gives, and as its refresh token that
\* of the response if it has one and the one held before the call if not;
\* whatever refreshes came before
C32_RefreshRotatesOrRetains ==
    [][(RefreshDue /\ isAuthed' /\ Granted(posted'.refresh)) =>
          /\ tokenFile.token.RefreshToken # ""
          /\ posted'.grant = NoAnswer
          /\ session'.AccessToken = posted'.refresh.access
          /\ session'.TokenExpiry = now + posted'.refresh.expires
          /\ session'.RefreshToken = IF posted'.refresh.refresh # ""
                                     THEN posted'.refresh.refresh
                                     ELSE tokenFile.token.RefreshToken]_vars

\* a refresh without a new refresh token (access token t3) has kept the refresh
\* token r2, and the session was written to the token file
C32_Witness ==
    /\ isAuthed /\ lastGrant = "refresh_token"
    /\ Granted(posted.refresh) /\ posted.refresh.refresh = ""
    /\ posted.refresh_token = "r2"
    /\ session.AccessToken = "t3" /\ session.RefreshToken = "r2"
    /\ tokenFile.token = session

\* this step is a call of auth (it is the only one that changes these)
AuthStep == posted' # posted \/ session' # session \/ isAuthed' # isAuthed

\* C38: if refreshToken fails (no refresh token held, no answer, an answer other
\* than 200, a body that cannot be decoded), the access token, the refresh token
\* and the expiry stay as they were before the call, here the token file's, as
\* long as no password limited grant replaces them; without a refresh token
\* nothing is POSTed for the refresh; and the one answer to the refresh is
\* final: if it is a failure the client is authenticated by the password
\* limited grant or not at all
C38_FailedRefreshKeepsSession ==
    [][(RefreshDue /\ AuthStep) =>
          LET t == tokenFile.token IN
          /\ ~isAuthed' =>
                /\ session'.AccessToken = t.AccessToken
                /\ session'.RefreshToken = t.RefreshToken
                /\ session'.TokenExpiry = t.TokenExpiry
          /\ t.RefreshToken = "" =>
                /\ posted'.refresh = NoAnswer /\ posted'.refresh_token = ""
                /\ lastGrant' \in {lastGrant, "password_limited"}
          /\ t.RefreshToken # "" =>
                /\ posted'.refresh_token = t.RefreshToken
                /\ posted'.refresh \in RefreshAnswers
          /\ ~Granted(posted'.refresh) /\ isAuthed' =>
                /\ Granted(posted'.grant)
                /\ lastGrant' = "password_limited"
                /\ session'.AccessToken = posted'.grant.access]_vars

\* the refresh of the token t1/r1 was answered with a 500 and the password
\* limited grant that followed with a 401: the session still holds t1 and r1
C38_Witness ==
    /\ ~isAuthed /\ authTokenFile = "tok" /\ tokenFile.exists
    /\ posted.refresh_token = "r1" /\ posted.refresh.status = 500
    /\ posted.grant.status = 401 /\ posted.password # ""
    /\ session.AccessToken = "t1" /\ session.RefreshToken = "r1"
    /\ session.AccessToken = tokenFile.token.AccessToken
    /\ session.TokenExpiry = tokenFile.token.TokenExpiry

----------------------------------------------------------------------------
(* The session's invariant *)

\* C33: in every state of the client, isAuthed implies that the session's
\* access token is not empty, whatever the token endpoint has answered
C33_AuthedHasAccessToken ==
    isAuthed => session.AccessToken # ""

\* C34: whatever the interleaving of grants with requests on the same client,
\* a request reads an access token and an expiry that one and the same grant
\* has written (in SpecTorn no time passes, so the grant of access token a
\* that lasts e seconds writes the expiry now + e)
C34_NoTornPair ==
    \A c \in Procs :
        (frame[c].op = "request" /\ frame[c].pc = "done") =>
            \E g \in SharedGrants :
                /\ frame[c].token.AccessToken = g.access
                /\ frame[c].token.TokenExpiry = now + g.expires

----------------------------------------------------------------------------
(* Properties of the cache as a map (SpecMap) *)

\* c's call op has just returned in this step
Returns(c, op) ==
    frame[c].pc = "idle" /\ frame'[c].pc = "done" /\ frame'[c].op = op

\* the store's entry of key is there and has not expired at time t
Unexpired(kv, key, t) == kv[hashKey(key)].present /\ kv[hashKey(key)].expiry > t

\* the other key
OtherKeys(key) == Uris \ {key}

\* C35, of set: a write that worked makes its data the key's value and leaves
\* every other key's entry as it was; one that failed changes nothing
SetWritesItsKeyOnly ==
    \A c \in Procs :
        Returns(c, "setCachedData") =>
            LET f == frame'[c] IN
            IF f.err = NoErr
            THEN /\ cask'.kv[hashKey(f.uri)].present
                 /\ cask'.kv[hashKey(f.uri)].data = f.data
                 /\ \A k \in OtherKeys(f.uri) : cask'.kv[hashKey(k)] = cask.kv[hashKey(k)]
            ELSE cask'.kv = cask.kv

\* C35, of delete: a delete that worked leaves the key without an entry and
\* every other key's entry as it was; the delete of a key that has no entry
\* succeeds and changes nothing
DeleteRemovesItsKeyOnly ==
    \A c \in Procs :
        Returns(c, "deleteCachedData") =>
            LET f == frame'[c] IN
            /\ \A k \in OtherKeys(f.uri) : cask'.kv[hashKey(k)] = cask.kv[hashKey(k)]
            /\ f.err = NoErr => ~cask'.kv[hashKey(f.uri)].present
            /\ f.err # NoErr => cask'.kv = cask.kv
            /\ ~cask.kv[hashKey(f.uri)].present => f.err = NoErr /\ cask' = cask

\* C35, of get: it changes nothing, and unless the store fails it returns the
\* data of the key's unexpired entry, and no data when the key has no entry
GetReadsItsKey ==
    \A c \in Procs :
        Returns(c, "getCachedData") =>
            LET f == frame'[c] IN
            /\ cask' = cask
            /\ f.err = NoErr /\ Unexpired(cask.kv, f.uri, now) =>
                  f.data = cask.kv[hashKey(f.uri)].data
            /\ f.err = NoErr /\ ~cask.kv[hashKey(f.uri)].present => f.data = NoData

\* C35: the cache is a map keyed by the hash of the URI: a key's value is the
\* data of the latest set of it that no delete followed, and no data otherwise;
\* a write to one key does not change what another key reads, and deleting a
\* key that is absent succeeds without effect.  Distinct URIs have distinct
\* hashes, and between the calls the store changes only by time passing
C35_CacheIsMap ==
    /\ [][SetWritesItsKeyOnly]_vars
    /\ [][DeleteRemovesItsKeyOnly]_vars
    /\ [][GetReadsItsKey]_vars
    /\ [][(\A c \in Procs : frame'[c].op \notin {"setCachedData", "deleteCachedData"}
                             \/ frame'[c] = frame[c])
            => cask'.kv = cask.kv]_vars
    /\ [](\A k1, k2 \in Uris : hashKey(k1) = hashKey(k2) => k1 = k2)

\* after three writes and deletes, "/b" deleted again, a get of "/a" has
\* returned x, which the store holds for "/a"
C35_Witness ==
    \E c \in Procs :
        /\ frame[c].op = "getCachedData" /\ frame[c].pc = "done"
        /\ frame[c].uri = "/a" /\ frame[c].data = Plain("x") /\ frame[c].err = NoErr
        /\ cask.records = 3
        /\ ~cask.kv[hashKey("/b")].present

----------------------------------------------------------------------------
(* Chunk resolution at depth, and its failures (SpecGet) *)

\* a chunk_info block that resolveChunks can resolve: null, or a list of names
Resolvable(ci) == ci.has /\ ci.shape \in {"null", "list"}

\* C36: in a document that Get returns, every object reached from the root
\* through object-valued keys (the root, and the object under "data") that has
\* a chunk_info key has the merged array under _chunk_data, and its chunk_info
\* key is kept
C36_ChunksResolvedAtDepth ==
    \A c \in Procs :
        ReturnedObject(c) =>
            LET d == frame[c].data IN
            /\ Resolvable(d.chunk_info) =>
                  d.chunk_data.set /\ d.chunk_data.elems = Merged(d.chunk_info.names)
            /\ (d.data.has /\ Resolvable(d.data.chunk_info)) =>
                  /\ d.data.chunk_data.set
                  /\ d.data.chunk_data.elems = Merged(d.data.chunk_info.names)

\* retryingGet has returned to resolveChunks with a chunk that cannot be used:
\* an error, or a body that is no JSON array
ChunkFailed(c) ==
    /\ frame[c].pc = "rg_ret" /\ frame[c].stage = "chunk"
    /\ \/ frame[c].rerr # NoErr
       \/ frame[c].resp # NoResp /\ frame[c].resp.body.kind # "array"

\* resolveChunks is about to visit a chunk_info key whose value is neither null
\* nor an object
MalformedNext(c) ==
    /\ frame[c].pc = "rc_range"
    /\ \/ "chunk_info" \in frame[c].keys /\ frame[c].doc.chunk_info.shape = "malformed"
       \/ "data" \in frame[c].keys /\ frame[c].doc.data.chunk_info.shape = "malformed"

\* C37: a chunk that cannot be fetched or is no JSON array, at whatever depth
\* its chunk_info lies, makes Get return an error at once and no data; a
\* malformed chunk_info makes Get return an error too (the program goes on)
C37_ChunkFailureIsError ==
    [][\A c \in Procs :
          /\ (ChunkFailed(c) /\ frame'[c] # frame[c]) =>
                /\ frame'[c].pc = "done"
                /\ frame'[c].err # NoErr
                /\ frame'[c].data = NoData
          /\ (MalformedNext(c) /\ frame'[c] # frame[c] /\ frame'[c].keys = {}) =>
                ~crashed' /\ frame'[c].err # NoErr]_vars

----------------------------------------------------------------------------
(* The statuses Get looks at (SpecStatus) *)

\* retryingGet has returned a response to c's Get, which goes on in this step
GotResponse(c) ==
    /\ frame[c].pc = "rg_ret" /\ frame[c].rerr = NoErr /\ frame[c].resp # NoResp
    /\ frame'[c] # frame[c]

\* c's Get returns the non-200 error in this step
Non200Returned(c) ==
    /\ frame[c].pc # "done" /\ frame'[c].pc = "done"
    /\ frame'[c].err = "received non-200 status code"

\* C40: Get returns the error "received non-200 status code" exactly when the
\* response to the request of the API URL has a status other than 200.  The
\* status of a followed link or data_url and of a chunk is not looked at: Get
\* goes on with the body exactly as it does when the status is 200, so the text
\* of a 404 is returned as the payload
C40_OnlyFirstStatusChecked ==
    [][\A c \in Procs :
          LET f == frame[c] IN
          /\ Non200Returned(c) <=>
                (GotResponse(c) /\ f.stage = "api" /\ f.resp.status # StatusOK)
          /\ (GotResponse(c) /\ f.stage \in {"link", "data_url", "chunk"}) =>
                frame'[c] = getAfterResponse([f EXCEPT !.resp.status = StatusOK])
          /\ (GotResponse(c) /\ f.stage \in {"link", "data_url"}
                /\ f.resp.body = Plain("y")) =>
                /\ frame'[c].pc = "done" /\ frame'[c].err = NoErr
                /\ frame'[c].data = Plain("y")]_vars

\* Get has returned, without an error, the text that only a 404 carries
C40_Witness ==
    \E c \in Procs :
        /\ frame[c].op = "Get" /\ frame[c].pc = "done"
        /\ frame[c].err = NoErr /\ frame[c].data = Plain("y")

----------------------------------------------------------------------------
(* GetWithCache when the fetch fails (SpecFail) *)

\* c's GetWithCache returns in this step from inside the Get it made
FetchReturns(c) ==
    /\ frame[c].op = "GetWithCache" /\ frame[c].got
    /\ frame[c].pc \notin {"done", "gwc_store"} /\ frame'[c].pc = "done"

\* retryingGet has returned to the Get of c's GetWithCache with an error of its
\* own or with a first response that is no 200
FetchFails(c) ==
    /\ frame[c].op = "GetWithCache" /\ frame[c].pc = "rg_ret" /\ frame'[c] # frame[c]
    /\ \/ frame[c].rerr # NoErr /\ frame[c].stage # "chunk"
       \/ /\ frame[c].rerr = NoErr /\ frame[c].resp # NoResp
          /\ frame[c].stage = "api" /\ frame[c].resp.status # StatusOK

\* a GetWithCache(uri) begins in this step with no entry for uri in the cache
MissBegins(c) ==
    /\ frame[c].pc = "idle" /\ frame'[c].op = "GetWithCache" /\ cask.open
    /\ ~cask.kv[hashKey(frame'[c].uri)].present
    /\ frame'[c].err # "cache get error"

\* C39: when the Get inside GetWithCache fails, GetWithCache returns no data
\* and Get's error, and the cache is as it was: the store changes only in the
\* step that writes fetched data, so no entry is written for the URI and a later
\* GetWithCache for it calls Get again
C39_FailedFetchLeavesCache ==
    [][/\ \A c \in Procs :
            /\ FetchFails(c) =>
                  /\ frame'[c].pc = "done" /\ frame'[c].err # NoErr
                  /\ frame[c].rerr # NoErr => frame'[c].err = frame[c].rerr
            /\ FetchReturns(c) =>
                  /\ frame'[c].err # NoErr /\ frame'[c].data = NoData
                  /\ ~frame'[c].stored
                  /\ cask' = cask
            /\ MissBegins(c) => frame'[c].got
       /\ cask'.kv # cask.kv =>
             \E c \in Procs : frame[c].pc = "gwc_store" /\ frame'[c].stored]_vars

\* a GetWithCache("/a") has returned RateLimitExceededError and no data, and the
\* cache holds no entry for "/a"
C39_Witness ==
    \E c \in Procs :
        /\ Returned(c) /\ frame[c].op = "GetWithCache" /\ frame[c].uri = "/a"
        /\ frame[c].got /\ ~frame[c].stored
        /\ frame[c].err = RateLimitExceeded /\ frame[c].data = NoData
        /\ cask.open /\ ~cask.kv[hashKey("/a")].present

====
